---- MODULE Spec2Model ----
(***************************************************************************)
(* Aging dashboard of cnet-aging: normalisation of the invoice table, the  *)
(* company-number extractor, the filter engine and the Aging page script   *)
(* with its sidebar, modelled from the Python sources.                     *)
(*                                                                         *)
(* Text values are sequences of one-character strings, so that strip,      *)
(* lower and the regular expression act on characters.  Python's None /    *)
(* NaN / NaT is the one-element tuple None, whose element is no character. *)
(***************************************************************************)
EXTENDS Integers, Sequences, FiniteSets, TLC

VARIABLES
    name, num, epc,                     \* extract_company_number: argument, result, position
    raw, norm1, norm2, npc,             \* normalize_invoices: raw row, first and second pass, position
    df, f, df_f, prev_df_f, fpc,        \* apply_filters: table, Filters, result, result before relaxing, position
    session_state, run, ppc,            \* Aging page: st.session_state, record of the last script run, position
    status_sel, chart, cpc,             \* charts: the Status multiselect, the last rollup, position
    root_dir, report, rpc,              \* report generator: files under the output directory, last result, position
    store, call, spc                    \* Supabase: the tables of the store, the call in progress, position

extractVars == <<name, num, epc>>
normVars    == <<raw, norm1, norm2, npc>>
filterVars  == <<f, df_f, prev_df_f, fpc>>
pageVars    == <<session_state, run, ppc>>
chartVars   == <<status_sel, chart, cpc>>
reportVars  == <<root_dir, report, rpc>>
storeVars   == <<store, call, spc>>
vars == <<name, num, epc, raw, norm1, norm2, npc, df, f, df_f, prev_df_f, fpc,
          session_state, run, ppc, status_sel, chart, cpc, root_dir, report, rpc,
          store, call, spc>>

(***************************************************************************)
(* Characters and text                                                     *)
(***************************************************************************)
None == <<"None">>

DigitChars == {"0", "1", "2", "3", "4", "5", "6", "7", "8", "9"}
UpperChars == {"A", "B", "C", "D", "T", "Y", "P", "N", "F"}
LowerChars == {"a", "b", "c", "d", "t", "y", "p", "n", "f", "r", "u", "e", "s",
               "i", "l", "o", "é"}
SpaceChars == {" ", "\t"}

IsDigit(c) == c \in DigitChars
IsSpace(c) == c \in SpaceChars
\* \w of a Python str pattern: letters, digits and the underscore
IsWord(c)  == c \in DigitChars \cup UpperChars \cup LowerChars \cup {"_"}

isinstance_str(v) == v # None

\* number of leading / trailing whitespace characters
LeadingSpaces(s) ==
    CHOOSE n \in 0..Len(s) :
        /\ \A i \in 1..n : IsSpace(s[i])
        /\ (n = Len(s) \/ ~IsSpace(s[n + 1]))

TrailingSpaces(s) ==
    CHOOSE n \in 0..Len(s) :
        /\ \A i \in (Len(s) - n + 1)..Len(s) : IsSpace(s[i])
        /\ (n = Len(s) \/ ~IsSpace(s[Len(s) - n]))

\* str.strip()
strip(s) ==
    IF LeadingSpaces(s) = Len(s) THEN <<>>
    ELSE SubSeq(s, LeadingSpaces(s) + 1, Len(s) - TrailingSpaces(s))

LowerOf(c) ==
    CASE c = "A" -> "a" [] c = "B" -> "b" [] c = "C" -> "c" [] c = "D" -> "d"
      [] c = "T" -> "t" [] c = "Y" -> "y" [] c = "P" -> "p" [] c = "N" -> "n"
      [] c = "F" -> "f" [] OTHER -> c

\* str.lower()
lower(s) == [i \in 1..Len(s) |-> LowerOf(s[i])]

(***************************************************************************)
(* extract_company_number  (filters.py)                                    *)
(***************************************************************************)
AllDigits(s, a, b) == b <= Len(s) /\ \A i \in a..b : IsDigit(s[i])

\* \b after position k, where s[k] is a word character
WordBoundaryAfter(s, k) == k = Len(s) \/ ~IsWord(s[k + 1])

\* first alternative \d{4}-\d{4}\b tried at position p
MatchHyphenated(s, p) ==
    /\ AllDigits(s, p, p + 3)
    /\ p + 4 <= Len(s)
    /\ s[p + 4] = "-"
    /\ AllDigits(s, p + 5, p + 8)
    /\ WordBoundaryAfter(s, p + 8)

\* second alternative \d{7,10}\b tried at position p with n digits
MatchDigitRun(s, p, n) ==
    /\ AllDigits(s, p, p + n - 1)
    /\ WordBoundaryAfter(s, p + n - 1)

\* a plausible slip: the run alternative written without the trailing \b
COMPANY_NUM_RE_match_NoBoundary(s) ==
    LET p == LeadingSpaces(s) + 1
        lens == {n \in 7..10 : AllDigits(s, p, p + n - 1)}
    IN  IF MatchHyphenated(s, p) THEN SubSeq(s, p, p + 8)
        ELSE IF lens # {}
             THEN LET n == CHOOSE m \in lens : \A k \in lens : k <= m
                  IN  SubSeq(s, p, p + n - 1)
             ELSE None

\* _COMPANY_NUM_RE.match(name) and m.group(1): ^\s*(\d{4}-\d{4}|\d{7,10})\b
\* the alternatives are tried in order, the quantifier is greedy
COMPANY_NUM_RE_match(s) ==
    LET p == LeadingSpaces(s) + 1
        lens == {n \in 7..10 : MatchDigitRun(s, p, n)}
    IN  IF MatchHyphenated(s, p) THEN SubSeq(s, p, p + 8)
        ELSE IF lens # {}
             THEN LET n == CHOOSE m \in lens : \A k \in lens : k <= m
                  IN  SubSeq(s, p, p + n - 1)
             ELSE None

extract_company_number(nm) ==
    IF ~isinstance_str(nm) \/ strip(nm) = <<>> THEN None
    ELSE COMPANY_NUM_RE_match(nm)

(***************************************************************************)
(* Inputs of the extractor: optional prefix, a run of digits, a tail       *)
(***************************************************************************)
MaxDigits == 11

DigitAt(i) == <<"1", "2", "3", "4", "5", "6", "7", "8", "9", "0">>[((i - 1) % 10) + 1]
DigitRun(n) == [i \in 1..n |-> DigitAt(i)]

NamePrefixes == {<<>>, <<" ">>, <<" ", " ">>, <<"A", " ">>, <<"-">>}
NameTails ==
    {<<>>, <<" ">>, <<" ", "A">>, <<"A">>, <<"_">>, <<"-">>, <<".">>,
     <<"-", "5", "6", "7">>, <<"-", "5", "6", "7", "8">>,
     <<"-", "5", "6", "7", "8", " ", "A">>, <<"-", "5", "6", "7", "8", "9">>,
     <<"-", "5", "6", "7", "8", "A">>, <<"-", "5", "6", "7", "8", "-", "1">>}

NameInputs ==
    {None} \cup
    {pre \o DigitRun(n) \o tl : pre \in NamePrefixes, n \in {0} \cup 3..MaxDigits,
                                tl \in NameTails}

(***************************************************************************)
(* Cells of a table.  A text cell is a sequence of characters; the other   *)
(* Python values carry a tag first: <<"num", k>>, <<"inf", sign>>,         *)
(* <<"bool", b>>, <<"date", y, m, d>>, and None for None / NaN / NaT.      *)
(***************************************************************************)
Tags == {"None", "num", "inf", "bool", "date", "absent", "idle", "frac"}

IsText(c) == Len(c) = 0 \/ c[1] \notin Tags
IsNum(c)  == Len(c) = 2 /\ c[1] = "num"
IsInf(c)  == Len(c) = 2 /\ c[1] = "inf"
IsBool(c) == Len(c) = 2 /\ c[1] = "bool"
IsDate(c) == Len(c) = 4 /\ c[1] = "date"

Num(k)  == <<"num", k>>
Bool(b) == <<"bool", b>>
Date(y, m, d) == <<"date", y, m, d>>
PosInf == <<"inf", 1>>
NegInf == <<"inf", -1>>
\* df.get(col) of a column the frame does not have
Absent == <<"absent">>

notna(c) == c # None

DigitVal(c) ==
    CASE c = "0" -> 0 [] c = "1" -> 1 [] c = "2" -> 2 [] c = "3" -> 3
      [] c = "4" -> 4 [] c = "5" -> 5 [] c = "6" -> 6 [] c = "7" -> 7
      [] c = "8" -> 8 [] c = "9" -> 9

DigitChar(k) == <<"0", "1", "2", "3", "4", "5", "6", "7", "8", "9">>[k + 1]

RECURSIVE ParseDigits(_)
ParseDigits(s) ==
    IF Len(s) = 0 THEN 0
    ELSE 10 * ParseDigits(SubSeq(s, 1, Len(s) - 1)) + DigitVal(s[Len(s)])

RECURSIVE FormatNat(_)
FormatNat(k) == IF k < 10 THEN <<DigitChar(k)>> ELSE FormatNat(k \div 10) \o <<DigitChar(k % 10)>>

\* k written with at least w digits, as %Y, %m and %d write it
RECURSIVE Pad(_, _)
Pad(k, w) == IF w <= 1 \/ k >= 10 ^ (w - 1) THEN FormatNat(k) ELSE <<"0">> \o Pad(k, w - 1)

\* dt.strftime("%Y-%m-%d") and str() of a date
strftime_ymd(c) == Pad(c[2], 4) \o <<"-">> \o Pad(c[3], 2) \o <<"-">> \o Pad(c[4], 2)

\* str(v) of a cell, as Series.astype(str) applies it
astype_str(c) ==
    IF IsText(c) THEN c
    ELSE IF c = None THEN <<"N", "o", "n", "e">>
    ELSE IF IsBool(c) THEN (IF c[2] THEN <<"T", "r", "u", "e">> ELSE <<"F", "a", "l", "s", "e">>)
    ELSE IF IsNum(c) THEN (IF c[2] < 0 THEN <<"-">> \o FormatNat(-c[2]) ELSE FormatNat(c[2]))
    ELSE IF IsInf(c) THEN (IF c[2] < 0 THEN <<"-", "i", "n", "f">> ELSE <<"i", "n", "f">>)
    ELSE IF Len(c) = 3 THEN FormatNat(c[2]) \o <<".">> \o c[3]
    ELSE strftime_ymd(c)

\* Series.fillna(v) of one cell
fillna(c, v) == IF c = None THEN v ELSE c

(***************************************************************************)
(* normalize_invoices  (normalize.py)                                      *)
(***************************************************************************)
ValidDate(y, m, d) ==
    /\ m \in 1..12
    /\ d >= 1
    /\ d <= (IF m = 2 THEN 29 ELSE IF m \in {4, 6, 9, 11} THEN 30 ELSE 31)

\* pd.to_datetime(col, errors="coerce").dt.date of one cell: a date stays,
\* a text YYYY-MM-DD (a time part after it is dropped by .dt.date) is
\* parsed, everything else is NaT
to_datetime_date(c) ==
    IF IsDate(c) THEN c
    ELSE IF ~IsText(c) THEN None
    ELSE IF /\ Len(c) >= 10
            /\ AllDigits(c, 1, 4) /\ c[5] = "-"
            /\ AllDigits(c, 6, 7) /\ c[8] = "-"
            /\ AllDigits(c, 9, 10)
            /\ (Len(c) = 10 \/ (c[11] = "T" /\ AllDigits(c, 12, Len(c))))
            /\ ValidDate(ParseDigits(SubSeq(c, 1, 4)), ParseDigits(SubSeq(c, 6, 7)),
                         ParseDigits(SubSeq(c, 9, 10)))
         THEN Date(ParseDigits(SubSeq(c, 1, 4)), ParseDigits(SubSeq(c, 6, 7)),
                   ParseDigits(SubSeq(c, 9, 10)))
         ELSE None

\* the position of the first "." of a text, 0 without one
FirstDot(s) ==
    IF \E i \in 1..Len(s) : s[i] = "." THEN CHOOSE i \in 1..Len(s) :
                                                /\ s[i] = "."
                                                /\ \A j \in 1..(i - 1) : s[j] # "."
    ELSE 0

\* a float with a fractional part: the integer part and the fraction digits
Frac(k, digits) == <<"frac", k, digits>>
IsFrac(c) == Len(c) = 3 /\ c[1] = "frac"

\* pd.to_numeric(col, errors="coerce") of one cell
to_numeric(c) ==
    IF IsNum(c) \/ IsInf(c) \/ IsFrac(c) THEN c
    ELSE IF ~IsText(c) THEN None
    ELSE IF Len(c) >= 1 /\ AllDigits(c, 1, Len(c)) THEN Num(ParseDigits(c))
    ELSE IF /\ FirstDot(c) > 1 /\ FirstDot(c) < Len(c)
            /\ AllDigits(c, 1, FirstDot(c) - 1)
            /\ AllDigits(c, FirstDot(c) + 1, Len(c))
         THEN IF \A i \in (FirstDot(c) + 1)..Len(c) : c[i] = "0"
              THEN Num(ParseDigits(SubSeq(c, 1, FirstDot(c) - 1)))
              ELSE Frac(ParseDigits(SubSeq(c, 1, FirstDot(c) - 1)),
                        SubSeq(c, FirstDot(c) + 1, Len(c)))
    ELSE IF Len(c) >= 2 /\ c[1] = "-" /\ AllDigits(c, 2, Len(c))
         THEN Num(-ParseDigits(SubSeq(c, 2, Len(c))))
    ELSE IF c = <<"i", "n", "f">> THEN PosInf
    ELSE IF c = <<"-", "i", "n", "f">> THEN NegInf
    ELSE None

\* a plausible slip: the token list written without "true"
TruthyTokens_NoTrue == {<<"t">>, <<"1">>, <<"y", "e", "s">>, <<"y">>}

\* ["true", "t", "1", "yes"]
TruthyTokens == {<<"t", "r", "u", "e">>, <<"t">>, <<"1">>, <<"y", "e", "s">>}

normalize_past_due(c) ==
    IF c = Absent THEN Bool(FALSE)
    ELSE Bool(lower(strip(astype_str(c))) \in TruthyTokens)

NullPlaceholder == <<"(", "n", "u", "l", "l", ")">>

normalize_invoices(row) ==
    LET payment_status == astype_str(fillna(row.payment_status, <<>>))
    IN  [issue_date              |-> to_datetime_date(row.issue_date),
         days_since_issue        |-> to_numeric(row.days_since_issue),
         total_amount_with_taxes |-> fillna(to_numeric(row.total_amount_with_taxes), Num(0)),
         past_due                |-> normalize_past_due(row.past_due),
         payment_status          |-> payment_status,
         payment_status_norm     |-> lower(strip(payment_status)),
         invoice_type            |-> astype_str(fillna(row.invoice_type, <<>>)),
         buyer_company_name      |-> astype_str(fillna(row.buyer_company_name, NullPlaceholder)),
         vendor_company_name     |-> astype_str(fillna(row.vendor_company_name, NullPlaceholder)),
         work_description        |-> astype_str(fillna(row.work_description, <<>>))]

(***************************************************************************)
(* Raw rows as the row source delivers them                                *)
(***************************************************************************)
T_Paid     == <<"P", "a", "i", "d">>
T_PaidPad  == <<" ", "P", "a", "i", "d", " ">>
T_Unpaid   == <<"u", "n", "p", "a", "i", "d">>
T_Regular  == <<"R", "e", "g", "u", "l", "a", "r">>
T_OneShot  == <<"O", "n", "e", " ", "S", "h", "o", "t">>
T_All      == <<"A", "l", "l">>
T_Day15    == <<"2", "0", "2", "4", "-", "0", "1", "-", "1", "5">>
T_Day16T   == <<"2", "0", "2", "4", "-", "0", "1", "-", "1", "6", "T", "0", "0">>
T_BadMonth == <<"2", "0", "2", "4", "-", "1", "3", "-", "0", "1">>

RawDates     == {None, T_Day15, T_Day16T, T_BadMonth, Date(2024, 1, 17)}
RawDays      == {None, Num(45), <<"-", "5">>, <<"i", "n", "f">>}
RawAmounts   == {None, <<"5", "0">>, <<"a">>, <<"i", "n", "f">>}
RawPastDue   == {Absent, None, Bool(TRUE), Bool(FALSE), <<" ", "Y", "e", "s">>,
                 <<"T">>, Num(1), <<"n", "o">>}
RawStatuses  == {None, T_PaidPad, T_Unpaid}
RawTypes     == {None, T_OneShot}
RawNames     == {None, <<>>, <<"B", "o", "b">>, <<" ", "1", "2", "3", "4", "5", "6", "7", " ", "A">>}
RawWork      == {None, <<"a", " ", "b">>}

RawRows ==
    [issue_date              : RawDates,
     days_since_issue        : RawDays,
     total_amount_with_taxes : RawAmounts,
     past_due                : RawPastDue,
     payment_status          : RawStatuses,
     invoice_type            : RawTypes,
     buyer_company_name      : RawNames,
     vendor_company_name     : RawNames,
     work_description        : RawWork]

(***************************************************************************)
(* Filters and apply_filters  (filters.py)                                 *)
(***************************************************************************)
\* the company names of the tables
N_Num    == <<"1", "2", "3", "4", "5", "6", "7", " ", "A">>
N_NumPad == <<" ", "1", "2", "3", "4", "5", "6", "7", " ", "D">>
N_Bob    == <<"B", "o", "b">>
N_Hyph   == <<"2", "2", "2", "2", "-", "2", "2", "2", "2", " ", "C">>
T_Null   == <<"(", "n", "u", "l", "l", ")">>
CompanyNames == {N_Num, N_NumPad, N_Bob, N_Hyph, T_Null}

\* Series.map(extract_company_number) over the names of a column
map_extract_company_number == [nm \in CompanyNames |-> extract_company_number(nm)]

\* a <= b on datetime.date values
DateLE(a, b) ==
    \/ a[2] < b[2]
    \/ (a[2] = b[2] /\ a[3] < b[3])
    \/ (a[2] = b[2] /\ a[3] = b[3] /\ a[4] <= b[4])

\* cell >= k and cell <= k on a float column (a cell may be +-inf)
NumGE(c, k) == IF IsInf(c) THEN c[2] > 0 ELSE c[2] >= k
NumLE(c, k) == IF IsInf(c) THEN c[2] < 0 ELSE c[2] <= k

\* a plausible slip: the universe built after the paid rows were dropped
build_vendor_numbers_universe_Unpaid(table) ==
    {map_extract_company_number[astype_str(r.vendor_company_name)] :
        r \in {x \in table : notna(x.vendor_company_name)
                             /\ x.payment_status_norm # lower(T_Paid)}} \ {None}

\* _build_vendor_numbers_universe(df)
build_vendor_numbers_universe(table) ==
    {map_extract_company_number[astype_str(r.vendor_company_name)] :
        r \in {x \in table : notna(x.vendor_company_name)}} \ {None}

\* is_internal: buyer_nums.isin(vendor_numbers_all), False everywhere when
\* the universe is empty
is_internal_of(rows, vendor_numbers_all) ==
    [r \in rows |->
        IF vendor_numbers_all # {}
        THEN map_extract_company_number[astype_str(r.buyer_company_name)] \in vendor_numbers_all
        ELSE FALSE]

\* a plausible slip: the second branch tests only "not wanted_internal"
keep_internal_external_NoneIsExternal(rows, is_internal, selection) ==
    LET wanted_internal == "Internal" \in selection
    IN  IF wanted_internal /\ "External" \notin selection THEN {r \in rows : is_internal[r]}
        ELSE IF ~wanted_internal THEN {r \in rows : ~is_internal[r]}
        ELSE rows

\* the Internal/External step of apply_filters
keep_internal_external(rows, is_internal, selection) ==
    LET wanted_internal == "Internal" \in selection
        wanted_external == "External" \in selection
    IN  IF wanted_internal /\ ~wanted_external THEN {r \in rows : is_internal[r]}
        ELSE IF wanted_external /\ ~wanted_internal THEN {r \in rows : ~is_internal[r]}
        ELSE rows

\* a plausible slip: the upper aging bound taken exclusive
keep_aging_Exclusive(rows, aging_min, aging_max) ==
    {r \in rows : /\ notna(r.days_since_issue)
                  /\ NumGE(r.days_since_issue, aging_min)
                  /\ NumLE(r.days_since_issue, aging_max - 1)}

\* the days_since_issue step of apply_filters
keep_aging(rows, aging_min, aging_max) ==
    {r \in rows : /\ notna(r.days_since_issue)
                  /\ NumGE(r.days_since_issue, aging_min)
                  /\ NumLE(r.days_since_issue, aging_max)}

\* a plausible slip: isin() applied without the "if f.buyer_selected" guard
keep_buyers_Unguarded(rows, buyer_selected) ==
    {r \in rows : r.buyer_company_name \in buyer_selected}

\* the buyer step of apply_filters
keep_buyers(rows, buyer_selected) ==
    IF buyer_selected # {}
    THEN {r \in rows : r.buyer_company_name \in buyer_selected}
    ELSE rows

\* the vendor step of apply_filters
keep_vendors(rows, vendor_selected) ==
    IF vendor_selected # {}
    THEN {r \in rows : r.vendor_company_name \in vendor_selected}
    ELSE rows

\* the rows of apply_filters before its Internal/External step
apply_filters_unpaid(table, flt) ==
    LET d1 == {r \in table : notna(r.issue_date)}
        d2 == {r \in d1 : DateLE(flt.issue_from, r.issue_date)
                          /\ DateLE(r.issue_date, flt.issue_to)}
        a  == keep_aging(d2, flt.aging_min, flt.aging_max)
        t  == IF flt.invoice_type # T_All
              THEN {r \in a : r.invoice_type = flt.invoice_type}
              ELSE a
        b  == keep_buyers(t, flt.buyer_selected)
        v  == keep_vendors(b, flt.vendor_selected)
    IN  {r \in v : r.payment_status_norm # lower(T_Paid)}

\* is_internal as apply_filters computes it
apply_filters_is_internal(table, flt) ==
    is_internal_of(apply_filters_unpaid(table, flt), build_vendor_numbers_universe(table))

apply_filters(table, flt) ==
    keep_internal_external(apply_filters_unpaid(table, flt),
                           apply_filters_is_internal(table, flt),
                           flt.internal_external)

(***************************************************************************)
(* Normalised tables and Filters values                                    *)
(***************************************************************************)
Day15 == Date(2024, 1, 15)
Day16 == Date(2024, 1, 16)

Row(id, issue, days, type, status, buyer, vendor, due, amount) ==
    [invoice_id              |-> id,
     issue_date              |-> issue,
     days_since_issue        |-> days,
     invoice_type            |-> type,
     payment_status_norm     |-> status,
     buyer_company_name      |-> buyer,
     vendor_company_name     |-> vendor,
     past_due                |-> due,
     total_amount_with_taxes |-> amount]

RowPool ==
    {Row(1, Day15, Num(45), T_Regular, <<>>,          N_NumPad, N_Bob,  TRUE,  100),
     Row(2, Day16, Num(-5), T_OneShot, <<>>,          N_Bob,    N_Num,  FALSE, 50),
     Row(3, Day15, Num(-5), T_Regular, lower(T_Paid), N_Bob,    N_Num,  TRUE,  70),
     Row(4, None,  Num(45), T_Regular, <<>>,          N_Hyph,   N_Bob,  TRUE,  10),
     Row(5, Day16, None,    T_OneShot, <<>>,          N_Num,    N_Hyph, FALSE, 20),
     Row(6, Day16, Num(45), <<>>,      lower(T_Unpaid), N_Hyph, N_Hyph, TRUE,  30),
     Row(7, Day15, Num(-5), T_Regular, <<>>,          N_Bob,    N_Bob,  FALSE, 40),
     Row(8, Day16, Num(45), T_OneShot, <<>>,          N_Num,    N_NumPad, FALSE, 60)}

MaxRows == 2
MaxSelected == 1
MaxStored == 1

Tables == {t \in SUBSET RowPool : Cardinality(t) \in 1..MaxRows}

FilterDates  == {Day15, Day16}
AgingValues  == {-5, 45}
InvoiceTypes == {T_All, T_Regular, T_OneShot}
BuyerTypes   == {"Internal", "External"}
Names        == {N_NumPad, N_Bob, N_Hyph}
Selections   == {x \in SUBSET Names : Cardinality(x) <= MaxSelected}

FiltersValues ==
    [issue_from        : FilterDates,
     issue_to          : FilterDates,
     aging_min         : AgingValues,
     aging_max         : AgingValues,
     invoice_type      : InvoiceTypes,
     internal_external : SUBSET BuyerTypes,
     buyer_selected    : Selections,
     vendor_selected   : Selections]

(***************************************************************************)
(* render_filters_sidebar  (filters.py)                                    *)
(*                                                                         *)
(* st.session_state is a record; a widget with a key reads and writes the  *)
(* entry of that key, and the entries persist from run to run.  Streamlit  *)
(* raises StreamlitAPIException when the script assigns the entry of a     *)
(* widget that this run has already instantiated.                          *)
(***************************************************************************)
Max2(a, b) == IF a >= b THEN a ELSE b
Min2(a, b) == IF a <= b THEN a ELSE b

\* date.today() of the page run
Today == Date(2024, 2, 1)

\* safe_issue_bounds(df)
safe_issue_bounds(table) ==
    LET dates == {r.issue_date : r \in {x \in table : notna(x.issue_date)}}
    IN  IF dates = {} THEN <<Date(2020, 1, 1), Today>>
        ELSE <<CHOOSE d \in dates : \A e \in dates : DateLE(d, e),
               CHOOSE d \in dates : \A e \in dates : DateLE(e, d)>>

\* safe_aging_bounds(df), for a column without infinite cells
safe_aging_bounds(table) ==
    LET days == {r.days_since_issue[2] : r \in {x \in table : notna(x.days_since_issue)}}
        lo == IF days = {} THEN 0 ELSE CHOOSE d \in days : \A e \in days : d <= e
        hi == IF days = {} THEN 0 ELSE CHOOSE d \in days : \A e \in days : e <= d
    IN  IF lo > hi THEN <<hi, lo>> ELSE <<lo, hi>>

\* the session before the first run: no key is set
NoSession ==
    [keys_set           |-> FALSE,
     issue_from         |-> None,
     issue_to           |-> None,
     aging_range        |-> <<0, 0>>,
     invoice_type       |-> T_All,
     internal_external  |-> {},
     buyer_selected     |-> {},
     vendor_selected    |-> {},
     html_report_bytes  |-> None,
     reports_zip_bytes  |-> None,
     invoices_zip_bytes |-> None]

\* init_reports_state() and the setdefault calls of render_filters_sidebar
setdefaults(s, min_issue, max_issue, min_aging, max_aging) ==
    IF s.keys_set THEN s
    ELSE [s EXCEPT !.keys_set = TRUE,
                   !.issue_from = min_issue,
                   !.issue_to = max_issue,
                   !.aging_range = <<min_aging, max_aging>>,
                   !.invoice_type = T_All,
                   !.internal_external = {"External"},
                   !.buyer_selected = {},
                   !.vendor_selected = {}]

\* the clamp of aging_range to the data bounds
clamp_aging_range(rng, min_aging, max_aging) ==
    LET lo == Max2(min_aging, rng[1])
        hi == Min2(max_aging, rng[2])
    IN  IF lo > hi THEN <<min_aging, max_aging>> ELSE <<lo, hi>>

\* internal_external_ui or ["Internal", "External"]
internal_external_effective(internal_external_ui) ==
    IF internal_external_ui # {} THEN internal_external_ui ELSE BuyerTypes

\* the rows of df_base before its Internal/External step
df_base_unpaid(table, issue_from, issue_to, aging_min_val, aging_max_val, invoice_type) ==
    LET d1 == {r \in table : notna(r.issue_date)}
        d2 == {r \in d1 : DateLE(issue_from, r.issue_date) /\ DateLE(r.issue_date, issue_to)}
        a1 == {r \in d2 : notna(r.days_since_issue)}
        a2 == {r \in a1 : NumGE(r.days_since_issue, aging_min_val)}
        a3 == {r \in a2 : NumLE(r.days_since_issue, aging_max_val)}
        t  == IF invoice_type # T_All THEN {r \in a3 : r.invoice_type = invoice_type} ELSE a3
    IN  {r \in t : r.payment_status_norm # lower(T_Paid)}

\* a plausible slip: the option base built without the buyer type step
df_base_of_NoBuyerType(rows, is_internal, effective) == rows

\* df_base after its Internal/External step
df_base_of(rows, is_internal, effective) ==
    LET wanted_internal == "Internal" \in effective
        wanted_external == "External" \in effective
    IN  IF wanted_internal /\ ~wanted_external THEN {r \in rows : is_internal[r]}
        ELSE IF wanted_external /\ ~wanted_internal THEN {r \in rows : ~is_internal[r]}
        ELSE rows

\* the cascading option lists: buyers of the base rows of the selected
\* vendors, vendors of the base rows of the selected buyers
buyer_options(df_base, vendor_current) ==
    LET rows == IF vendor_current # {}
                THEN {r \in df_base : r.vendor_company_name \in vendor_current}
                ELSE df_base
    IN  {r.buyer_company_name : r \in {x \in rows : notna(x.buyer_company_name)}}

vendor_options(df_base, buyer_current) ==
    LET rows == IF buyer_current # {}
                THEN {r \in df_base : r.buyer_company_name \in buyer_current}
                ELSE df_base
    IN  {r.vendor_company_name : r \in {x \in rows : notna(x.vendor_company_name)}}

\* a plausible slip: the stored selection kept as it is
sanitized_Unchanged(current, options) == current

\* [b for b in buyer_current if b in buyers]
sanitized(current, options) == {x \in current : x \in options}

NoFilters == [returned |-> FALSE]

\* a plausible slip: the rerun requested without the sanitized selections
\* written to the session
sidebar_widgets_NoWrite(s2, options) ==
    IF \/ sanitized(options.buyer_current, options.buyers) # options.buyer_current
       \/ sanitized(options.vendor_current, options.vendors) # options.vendor_current
    THEN [ended |-> "rerun",
          session |-> s2,
          base_built |-> TRUE, options |-> options, f |-> NoFilters]
    ELSE [ended |-> "returned", session |-> s2, base_built |-> TRUE,
          options |-> options,
          f |-> [returned          |-> TRUE,
                 issue_from        |-> options.issue_from,
                 issue_to          |-> options.issue_to,
                 aging_min         |-> options.aging_min_val,
                 aging_max         |-> options.aging_max_val,
                 invoice_type      |-> options.invoice_type,
                 internal_external |-> options.internal_external_effective,
                 buyer_selected    |-> s2.buyer_selected,
                 vendor_selected   |-> s2.vendor_selected]]

\* the sanitising of the stored selections, the rerun it requests, and the
\* return of the Filters value when the widgets are reached
sidebar_widgets(s2, options) ==
    IF \/ sanitized(options.buyer_current, options.buyers) # options.buyer_current
       \/ sanitized(options.vendor_current, options.vendors) # options.vendor_current
    THEN [ended |-> "rerun",
          session |-> [s2 EXCEPT
                          !.buyer_selected = sanitized(@, options.buyers),
                          !.vendor_selected = sanitized(@, options.vendors)],
          base_built |-> TRUE, options |-> options, f |-> NoFilters]
    ELSE [ended |-> "returned", session |-> s2, base_built |-> TRUE,
          options |-> options,
          f |-> [returned          |-> TRUE,
                 issue_from        |-> options.issue_from,
                 issue_to          |-> options.issue_to,
                 aging_min         |-> options.aging_min_val,
                 aging_max         |-> options.aging_max_val,
                 invoice_type      |-> options.invoice_type,
                 internal_external |-> options.internal_external_effective,
                 buyer_selected    |-> s2.buyer_selected,
                 vendor_selected   |-> s2.vendor_selected]]

\* what the sidebar has computed when it reaches the buyer and vendor lists
sidebar_options(s2, is_internal, df_base) ==
    [issue_from |-> s2.issue_from, issue_to |-> s2.issue_to,
     aging_min_val |-> s2.aging_range[1], aging_max_val |-> s2.aging_range[2],
     invoice_type |-> s2.invoice_type,
     internal_external_effective |-> internal_external_effective(s2.internal_external),
     is_internal |-> is_internal, df_base |-> df_base,
     buyer_current |-> s2.buyer_selected, vendor_current |-> s2.vendor_selected,
     buyers |-> buyer_options(df_base, s2.vendor_selected),
     vendors |-> vendor_options(df_base, s2.buyer_selected)]

\* the Internal/External step of the option base
sidebar_base(s2, unpaid, is_internal) ==
    sidebar_widgets(s2,
        sidebar_options(s2, is_internal,
            df_base_of(unpaid, is_internal,
                       internal_external_effective(s2.internal_external))))

\* the date widgets and the swap of an inverted range, which assigns
\* session_state["issue_from"] after its widget was instantiated
sidebar_dates(table, s2, unpaid) ==
    IF ~DateLE(s2.issue_from, s2.issue_to)
    THEN [ended |-> "exception", session |-> s2, base_built |-> FALSE,
          options |-> <<>>, f |-> NoFilters]
    ELSE sidebar_base(s2, unpaid,
                      is_internal_of(unpaid, build_vendor_numbers_universe(table)))

\* the session after the setdefault calls and the clamp
sidebar_session(session, min_issue, max_issue, min_aging, max_aging) ==
    [setdefaults(session, min_issue, max_issue, min_aging, max_aging) EXCEPT
        !.aging_range = clamp_aging_range(@, min_aging, max_aging)]

\* the rows of df_base before its Internal/External step, for the session
sidebar_unpaid(table, s2) ==
    df_base_unpaid(table, s2.issue_from, s2.issue_to, s2.aging_range[1],
                   s2.aging_range[2], s2.invoice_type)

\* one call of render_filters_sidebar: the session it leaves, how it ended
\* ("returned", "rerun" for st.rerun(), "exception"), and what it computed
render_filters_sidebar(table, session, min_issue, max_issue, min_aging, max_aging) ==
    sidebar_dates(table,
                  sidebar_session(session, min_issue, max_issue, min_aging, max_aging),
                  sidebar_unpaid(table,
                      sidebar_session(session, min_issue, max_issue, min_aging, max_aging)))

(***************************************************************************)
(* The Aging page script  (pages/02_Aging.py, ui/reports.py)               *)
(*                                                                         *)
(* A stored artifact (report bytes, ZIP bytes) is represented by the table *)
(* that was handed to its generator.                                       *)
(***************************************************************************)
Buttons == {"refresh", "gen_full", "gen_partitioned", "gen_invoices_zip"}

\* the bytes of an artifact generated from the table source
Bytes(source) == <<"bytes", source>>

\* a plausible slip: the report built from the past-due rows only
df_report_PastDue(filtered) == {r \in filtered : r.past_due}

\* df_report = df_f.copy() in both report generators
df_report(filtered) == filtered

\* df_zip = df_f[df_f["past_due"]].copy()
df_zip(filtered) == {r \in filtered : r.past_due}

NoRun ==
    [button |-> "none", ended |-> "none", base_built |-> FALSE, options |-> <<>>,
     f |-> NoFilters, df_f |-> {}, is_internal |-> <<>>, shown |-> {}, generated |-> {}]

\* the run from the report buttons on, on a non-empty filtered table
page_reports(button, sb, r1, filtered) ==
    IF button = "gen_full"
    THEN [session |-> [sb.session EXCEPT !.html_report_bytes = Bytes(df_report(filtered))],
          run |-> [r1 EXCEPT !.ended = "rerun_full", !.generated = df_report(filtered)]]
    ELSE IF button = "gen_partitioned"
    THEN [session |-> [sb.session EXCEPT !.reports_zip_bytes = Bytes(df_report(filtered))],
          run |-> [r1 EXCEPT !.ended = "rerun_partitioned", !.generated = df_report(filtered)]]
    ELSE IF button = "gen_invoices_zip"
    THEN IF df_zip(filtered) = {}
         THEN \* build_past_due_invoices_zip_by_vendor_buyer raises ValueError
              [session |-> sb.session, run |-> [r1 EXCEPT !.ended = "exception_zip"]]
         ELSE [session |-> [sb.session EXCEPT !.invoices_zip_bytes = Bytes(df_zip(filtered))],
               run |-> [r1 EXCEPT !.ended = "rerun_invoices_zip",
                                  !.generated = df_zip(filtered)]]
    ELSE [session |-> sb.session,
          run |-> [r1 EXCEPT !.ended = "rendered", !.shown = filtered]]

\* a plausible slip: the run goes on to the report buttons on an empty table
page_filtered_NoStop(button, sb, r0, filtered, is_internal) ==
    page_reports(button, sb,
                 [r0 EXCEPT !.df_f = filtered, !.is_internal = is_internal],
                 filtered)

\* the run from apply_filters on
page_filtered(button, sb, r0, filtered, is_internal) ==
    IF filtered = {}
    THEN [session |-> sb.session,
          run |-> [r0 EXCEPT !.df_f = filtered, !.is_internal = is_internal,
                             !.ended = "stop_empty"]]
    ELSE page_reports(button, sb,
                      [r0 EXCEPT !.df_f = filtered, !.is_internal = is_internal],
                      filtered)

\* the run after the sidebar
page_sidebar(table, button, sb, r0) ==
    IF sb.ended = "exception"
    THEN [session |-> sb.session, run |-> r0]
    ELSE IF sb.ended = "rerun"
    THEN [session |-> sb.session, run |-> [r0 EXCEPT !.ended = "rerun_sanitize"]]
    ELSE page_filtered(button, sb, r0, apply_filters(table, sb.f),
                       apply_filters_is_internal(table, sb.f))

\* what a run records of its sidebar
run_of(button, sb) ==
    [button |-> button, ended |-> sb.ended, base_built |-> sb.base_built,
     options |-> sb.options, f |-> sb.f, df_f |-> {}, is_internal |-> <<>>,
     shown |-> {}, generated |-> {}]

\* the run that follows a call of the sidebar
page_run(table, button, sb) == page_sidebar(table, button, sb, run_of(button, sb))

\* one run of the page script on the fetched and normalised table, with the
\* button that triggered it ("none" for a widget change or a rerun)
page_script(table, session, button) ==
    page_run(table, button,
        render_filters_sidebar(table, session,
                               safe_issue_bounds(table)[1], safe_issue_bounds(table)[2],
                               safe_aging_bounds(table)[1], safe_aging_bounds(table)[2]))

RerunEndings == {"rerun_sanitize", "rerun_full", "rerun_partitioned", "rerun_invoices_zip"}
\* endings after which the whole sidebar is on the screen
SidebarEndings == {"stop_empty", "exception_zip", "rendered"}

\* the tables on which the aging slider has a proper range
PageRowIds == {1, 2, 3, 7}
PageTables ==
    {t \in SUBSET {r \in RowPool : r.invoice_id \in PageRowIds} :
        /\ Cardinality(t) = 2
        /\ safe_aging_bounds(t)[1] < safe_aging_bounds(t)[2]}

(***************************************************************************)
(* sanitize_path_part and the report generator  (reporting/report.py,      *)
(* ui/reports.py)                                                          *)
(***************************************************************************)
\* the characters that [^\w\-. ]+ leaves in place
IsPathChar(c) == IsWord(c) \/ c \in {"-", ".", " "}

\* the characters of s that are kept, a dropped one being the empty string
Kept(s) == SelectSeq(s, LAMBDA c : c # "")

\* re.sub(r"[^\w\-. ]+", "_", s): each run of other characters becomes one
\* "_", written at the first character of the run
sub_other(s) ==
    Kept([i \in 1..Len(s) |->
            IF IsPathChar(s[i]) THEN s[i]
            ELSE IF i = 1 THEN "_"
            ELSE IF IsPathChar(s[i - 1]) THEN "_" ELSE ""])

\* re.sub(r"\s+", "_", s): each run of whitespace becomes one "_"
sub_spaces(s) ==
    Kept([i \in 1..Len(s) |->
            IF ~IsSpace(s[i]) THEN s[i]
            ELSE IF i = 1 THEN "_"
            ELSE IF ~IsSpace(s[i - 1]) THEN "_" ELSE ""])

\* s.strip("._-")
RECURSIVE lstrip_seps(_)
lstrip_seps(s) ==
    IF s = <<>> \/ Head(s) \notin {".", "_", "-"} THEN s ELSE lstrip_seps(Tail(s))

RECURSIVE rstrip_seps(_)
rstrip_seps(s) ==
    IF s = <<>> \/ s[Len(s)] \notin {".", "_", "-"} THEN s
    ELSE rstrip_seps(SubSeq(s, 1, Len(s) - 1))

strip_seps(s) == rstrip_seps(lstrip_seps(s))

\* a plausible slip: the token returned without the cut at maxlen
truncate_or_null_Uncut(s, maxlen) == IF s = <<>> THEN NullPlaceholder ELSE s

\* s[:maxlen] or "(null)"
truncate_or_null(s, maxlen) ==
    IF s = <<>> \/ maxlen = 0 THEN NullPlaceholder
    ELSE SubSeq(s, 1, Min2(Len(s), maxlen))

\* sanitize_path_part(s, maxlen)
sanitize_path_part(s, maxlen) ==
    truncate_or_null(
        strip_seps(sub_spaces(sub_other(strip(IF s = None THEN <<>> ELSE s)))),
        maxlen)

\* the names handed to sanitize_path_part: short names over the characters
\* below, the same names behind a long run of letters, and no name at all
SanitizeChars == {"a", "é", "&", " ", "\t", ".", "_", "-", "/"}
MaxNameLen == 3
RunLen == 78
ShortNames ==
    UNION {[1..n -> SanitizeChars] : n \in 0..MaxNameLen}
T_CafeCo == <<"C", "a", "f", "é", " ", "&", " ", "C", "o", ".">>
SanitizeInputs ==
    ShortNames \cup {[i \in 1..RunLen |-> "a"] \o t : t \in ShortNames}
               \cup {None, T_CafeCo}

(***************************************************************************)
(* Chart rollups  (ui/charts.py)                                           *)
(*                                                                         *)
(* The charts read a normalised table: past_due is a boolean and the       *)
(* amount a number in every row, days_since_issue and invoice_type are the *)
(* columns the dropna calls can act on.                                    *)
(***************************************************************************)
\* Series.sum() of total_amount_with_taxes
RECURSIVE sum_amount(_)
sum_amount(rows) ==
    IF rows = {} THEN 0
    ELSE LET r == CHOOSE x \in rows : TRUE
         IN  r.total_amount_with_taxes + sum_amount(rows \ {r})

\* tmp["past_due"].map({True: "Past Due", False: "Current"})
status_of(past_due) == IF past_due THEN "Past Due" ELSE "Current"

\* tmp.groupby(["status", "invoice_type"]).agg(amount=sum, count=size): one
\* row for each pair that occurs
metrics_groupby(tmp) ==
    [k \in {<<status_of(r.past_due), r.invoice_type>> : r \in tmp} |->
        LET grp == {r \in tmp : <<status_of(r.past_due), r.invoice_type>> = k}
        IN  [amount |-> sum_amount(grp), count |-> Cardinality(grp)]]

\* MultiIndex.from_product([["Current", "Past Due"], ["Regular", "One Shot"]])
metrics_full == {"Current", "Past Due"} \X {T_Regular, T_OneShot}

\* a plausible slip: the merge written with how="inner"
merge_fillna_Inner(full, out) == [k \in full \cap DOMAIN out |-> out[k]]

\* full.merge(out, how="left").fillna({"amount": 0.0, "count": 0})
merge_fillna(full, out) ==
    [k \in full |-> IF k \in DOMAIN out THEN out[k] ELSE [amount |-> 0, count |-> 0]]

\* _metrics_rollup(df_f)
metrics_rollup(table) ==
    merge_fillna(metrics_full,
                 metrics_groupby({r \in table : /\ notna(r.invoice_type)
                                                /\ r.invoice_type \in {T_Regular, T_OneShot}}))

\* list(range(0, stop, 30))
range30(stop) == [i \in 1..(IF stop <= 0 THEN 0 ELSE (stop + 29) \div 30) |-> 30 * (i - 1)]

\* f"{edges[i]}-{edges[i+1]-1}"
bin_label(lo, hi) == FormatNat(lo) \o <<"-">> \o FormatNat(hi)

\* labels of render_past_due_bins
bin_labels(edges) ==
    [i \in 1..(IF Len(edges) >= 1 THEN Len(edges) - 1 ELSE 0) |->
        bin_label(edges[i], edges[i + 1] - 1)]

\* pd.cut(days, bins=edges, labels=labels, right=False) of one value: the
\* label of the bin [edges[i], edges[i+1]) that holds it, NaN outside
cut(d, edges, labels) ==
    IF \E i \in DOMAIN labels : edges[i] <= d /\ d < edges[i + 1]
    THEN labels[CHOOSE i \in DOMAIN labels : edges[i] <= d /\ d < edges[i + 1]]
    ELSE None

\* the position of the first "-" of a label
RECURSIVE FirstHyphen(_, _)
FirstHyphen(s, i) ==
    IF i > Len(s) THEN 0 ELSE IF s[i] = "-" THEN i ELSE FirstHyphen(s, i + 1)

\* int(label.split("-")[0])
bin_start(label) == ParseDigits(SubSeq(label, 1, FirstHyphen(label, 1) - 1))

NoBins == [ended |-> "none", max_days |-> 0, edges |-> <<>>, labels |-> <<>>,
           rows |-> {}, bins |-> <<>>]

\* the rollup once the edges are built: astype(int) of the bin start raises
\* for a row that pd.cut left without a bin; otherwise one row for each bin
\* that holds a row (a bin without rows carries count 0 when it is listed)
bins_rollup(tmp, max_days, edges, labels) ==
    IF \E r \in tmp : cut(r.days_since_issue[2], edges, labels) = None
    THEN [NoBins EXCEPT !.ended = "exception", !.max_days = max_days, !.edges = edges,
                        !.labels = labels, !.rows = tmp]
    ELSE [NoBins EXCEPT
            !.ended = "rendered", !.max_days = max_days, !.edges = edges,
            !.labels = labels, !.rows = tmp,
            !.bins = [b \in {cut(r.days_since_issue[2], edges, labels) : r \in tmp} |->
                        LET grp == {r \in tmp : cut(r.days_since_issue[2], edges, labels) = b}
                        IN  [bin_start |-> bin_start(b),
                             count     |-> Cardinality(grp),
                             amount    |-> sum_amount(grp)]]]

\* max_days, max_edge, edges and labels of render_past_due_bins
bins_edges(tmp, max_days) ==
    bins_rollup(tmp, max_days,
                range30((((max_days \div 30) + 1) * 30) + 30),
                bin_labels(range30((((max_days \div 30) + 1) * 30) + 30)))

\* render_past_due_bins(past_due_df), for a column without infinite cells
render_past_due_bins(past_due_df) ==
    IF past_due_df = {} THEN [NoBins EXCEPT !.ended = "warning"]
    ELSE IF {r \in past_due_df : notna(r.days_since_issue)} = {}
    THEN [NoBins EXCEPT !.ended = "warning"]
    ELSE bins_edges({r \in past_due_df : notna(r.days_since_issue)},
                    CHOOSE d \in {r.days_since_issue[2] :
                                     r \in {x \in past_due_df : notna(x.days_since_issue)}} :
                        \A r \in past_due_df :
                            notna(r.days_since_issue) => r.days_since_issue[2] <= d)

\* a plausible slip: the colour rule written with a strict bound
flag_Strict(x) == IF x < 0 THEN "Current (<=0)" ELSE "Past Due (>0)"

\* _flag(x)
flag(x) == IF x <= 0 THEN "Current (<=0)" ELSE "Past Due (>0)"

NoByDays == [ended |-> "none", rows |-> {}, counts |-> <<>>]

\* the groupby of render_invoices_by_days_since_issue_bars: one entry for
\* each distinct days_since_issue, with count, amount and colour tag
by_days_groups(tmp) ==
    [d \in {r.days_since_issue[2] : r \in tmp} |->
        LET grp == {r \in tmp : r.days_since_issue[2] = d}
        IN  [invoice_count |-> Cardinality(grp),
             amount        |-> sum_amount(grp),
             aging_status  |-> flag(d)]]

\* keep: the past_due values of the selected statuses
keep_of(sel) ==
    (IF "Current" \in sel THEN {FALSE} ELSE {}) \cup (IF "Past Due" \in sel THEN {TRUE} ELSE {})

\* render_invoices_by_days_since_issue_bars(df_f) with the Status
\* multiselect at sel, for columns without infinite cells
render_invoices_by_days_since_issue_bars(table, sel) ==
    IF {r \in table : notna(r.days_since_issue)} = {}
    THEN [NoByDays EXCEPT !.ended = "warning"]
    ELSE IF keep_of(sel) = {}
    THEN [NoByDays EXCEPT !.ended = "returned"]
    ELSE IF {r \in table : notna(r.days_since_issue) /\ r.past_due \in keep_of(sel)} = {}
    THEN [NoByDays EXCEPT !.ended = "warning"]
    ELSE [ended  |-> "rendered",
          rows   |-> {r \in table : notna(r.days_since_issue) /\ r.past_due \in keep_of(sel)},
          counts |-> by_days_groups({r \in table : /\ notna(r.days_since_issue)
                                                   /\ r.past_due \in keep_of(sel)})]

\* the tables handed to the charts
ChartRowPool ==
    {Row(11, Day15, Num(45), T_Regular, <<>>, N_Bob, N_Num, TRUE,  100),
     Row(12, Day15, Num(30), T_OneShot, <<>>, N_Bob, N_Num, TRUE,  50),
     Row(13, Day15, Num(29), T_Regular, <<>>, N_Bob, N_Num, TRUE,  20),
     Row(14, Day15, Num(0),  T_Regular, <<>>, N_Bob, N_Num, FALSE, 40),
     Row(15, Day15, Num(-5), T_OneShot, <<>>, N_Bob, N_Num, TRUE,  70),
     Row(16, Day15, None,    T_Regular, <<>>, N_Bob, N_Num, TRUE,  10),
     Row(17, Day15, Num(0),  <<>>,      <<>>, N_Bob, N_Num, TRUE,  60),
     Row(18, Day15, Num(45), T_OneShot, <<>>, N_Bob, N_Num, FALSE, 30),
     Row(19, Day15, Num(-45), T_Regular, <<>>, N_Bob, N_Num, TRUE, 80)}

MaxChartRows == 2
ChartTables == {t \in SUBSET ChartRowPool : Cardinality(t) <= MaxChartRows}
StatusOptions == {"Current", "Past Due"}

(***************************************************************************)
(* ClientReportGenerator  (reporting/report.py) and the ZIP of its output  *)
(* folder (ui/reports.py)                                                  *)
(*                                                                         *)
(* A rendered document is represented by the context handed to its         *)
(* template.  The folder reports/reports_by_vendor_buyer is the map from   *)
(* the leaf paths <<vendor folder, buyer folder>> to the report.html       *)
(* written there, with its index.html.                                     *)
(***************************************************************************)
\* code points of the characters of the report names
Ord(c) ==
    CASE c = "&" -> 38 [] c = "*" -> 42 [] c = "." -> 46
      [] c = "A" -> 65 [] c = "B" -> 66 [] c = "C" -> 67 [] c = "D" -> 68
      [] c = "b" -> 98 [] c = "o" -> 111

\* a < b for Python strings
StrLess(a, b) ==
    \E i \in 1..(Min2(Len(a), Len(b)) + 1) :
        /\ \A j \in 1..(i - 1) : a[j] = b[j]
        /\ \/ i > Len(a) /\ i <= Len(b)
           \/ i <= Len(a) /\ i <= Len(b) /\ Ord(a[i]) < Ord(b[i])

\* the keys of a groupby, in the sorted order in which it yields them
RECURSIVE sorted_keys(_)
sorted_keys(keys) ==
    IF keys = {} THEN <<>>
    ELSE LET k == CHOOSE x \in keys : \A y \in keys \ {x} : StrLess(x, y)
         IN  <<k>> \o sorted_keys(keys \ {k})

\* df_vendor of df.groupby(vendor_col)
df_vendor_of(table, vendor) == {r \in table : r.vendor_company_name = vendor}

\* a plausible slip: the buyer subtotal taken over the whole vendor group
df_buyer_of_WholeVendor(df_vendor, buyer) == df_vendor

\* df_buyer of df_vendor.groupby(buyer_col)
df_buyer_of(df_vendor, buyer) == {r \in df_vendor : r.buyer_company_name = buyer}

\* the (vendor, buyer) pairs in the order of the two nested groupby loops
RECURSIVE groupby_pairs(_, _)
groupby_pairs(table, vendors) ==
    IF vendors = <<>> THEN <<>>
    ELSE [i \in 1..Cardinality({r.buyer_company_name : r \in df_vendor_of(table, Head(vendors))}) |->
             <<Head(vendors),
               sorted_keys({r.buyer_company_name : r \in df_vendor_of(table, Head(vendors))})[i]>>]
         \o groupby_pairs(table, Tail(vendors))

\* a plausible slip: the columns left in place
drop_columns_Keep(r, columns) == r

\* one record of df_buyer.drop(columns=[c for c in ... if c in df_buyer.columns],
\* errors="ignore").to_dict(orient="records")
drop_columns(r, columns) == [c \in (DOMAIN r) \ columns |-> r[c]]

\* g_render.to_dict(orient="records"): the row detail of a buyer group
g_render(df_buyer, hide_columns) ==
    {drop_columns(r, hide_columns \cup {"vendor_company_name", "buyer_company_name"}) :
        r \in df_buyer}

\* hide_cols of generate_full_html_report_to_session and
\* generate_partitioned_reports_zip_to_session
hide_cols == {"creation_date", "payment_status", "payment_status_norm"}

\* the context of one buyer group: its rows, buyer_total, vendor_total and
\* grand_total
leaf_context(table, pair, hide_columns) ==
    [vendor       |-> pair[1],
     buyer        |-> pair[2],
     rows         |-> g_render(df_buyer_of(df_vendor_of(table, pair[1]), pair[2]), hide_columns),
     buyer_total  |-> sum_amount(df_buyer_of(df_vendor_of(table, pair[1]), pair[2])),
     vendor_total |-> sum_amount(df_vendor_of(table, pair[1])),
     grand_total  |-> sum_amount(table)]

\* generate_html: the context of the one template, vendors -> buyers ->
\* rows with the subtotal, the vendor_total and the grand_total
generate_html(table, hide_columns) ==
    [vendors |->
        [v \in {r.vendor_company_name : r \in table} |->
            [vendor_total |-> sum_amount(df_vendor_of(table, v)),
             buyers |->
                [b \in {r.buyer_company_name : r \in df_vendor_of(table, v)} |->
                    [rows     |-> g_render(df_buyer_of(df_vendor_of(table, v), b), hide_columns),
                     subtotal |-> sum_amount(df_buyer_of(df_vendor_of(table, v), b))]]]],
     grand_total |-> sum_amount(table)]

\* the contexts of the leaf documents of generate_html_partitioned, in the
\* order in which they are rendered
leaf_contexts(table, pairs, hide_columns) ==
    [i \in 1..Len(pairs) |-> leaf_context(table, pairs[i], hide_columns)]

\* root_dir / sanitize_path_part(str(vendor)) / sanitize_path_part(str(buyer))
leaf_path(pair) ==
    <<sanitize_path_part(astype_str(pair[1]), 80), sanitize_path_part(astype_str(pair[2]), 80)>>

\* out_path.write_text(html): the file is created or overwritten
write_text(leaves, path, content) ==
    [p \in DOMAIN leaves \cup {path} |-> IF p = path THEN content ELSE leaves[p]]

\* the leaf documents of generate_html_partitioned, written in loop order
\* into the folder as it is
RECURSIVE write_leaves(_, _, _, _)
write_leaves(leaves, table, pairs, hide_columns) ==
    IF pairs = <<>> THEN leaves
    ELSE write_leaves(write_text(leaves, leaf_path(Head(pairs)),
                                 leaf_context(table, Head(pairs), hide_columns)),
                      table, Tail(pairs), hide_columns)

\* index_entries of generate_html_partitioned
index_entries(table, pairs) ==
    [i \in 1..Len(pairs) |->
        [vendor      |-> pairs[i][1],
         buyer       |-> pairs[i][2],
         buyer_total |-> leaf_context(table, pairs[i], {}).buyer_total,
         href        |-> leaf_path(pairs[i])]]

\* the output folder before the first generation
NoFiles == [leaves |-> <<>>, has_index |-> FALSE, index |-> <<>>]

\* generate_html_partitioned on the folder files: root_dir.mkdir(exist_ok=True)
\* keeps what the folder holds
partitioned_into(files, table, pairs, hide_columns) ==
    [leaves    |-> write_leaves(files.leaves, table, pairs, hide_columns),
     has_index |-> TRUE,
     index     |-> index_entries(table, pairs)]

generate_html_partitioned(files, table, hide_columns) ==
    partitioned_into(files, table,
                     groupby_pairs(table, sorted_keys({r.vendor_company_name : r \in table})),
                     hide_columns)

\* _zip_folder_bytes(root_dir): every file under the folder
zip_folder_bytes(files) == files

\* the tables handed to the generator
V_AandB == <<"A", "&", "B">>
V_AstarB == <<"A", "*", "B">>
B_C == <<"C">>
B_Cdot == <<"C", ".">>
B_D == <<"D">>
ReportRowPool ==
    {Row(21, Day15, Num(45), T_Regular, <<>>, B_C,    V_AandB,  TRUE,  100),
     Row(22, Day15, Num(45), T_Regular, <<>>, B_C,    V_AstarB, TRUE,  50),
     Row(23, Day15, Num(45), T_OneShot, <<>>, B_Cdot, V_AandB,  FALSE, 70),
     Row(25, Day16, Num(-5), T_OneShot, <<>>, B_D,    N_Bob,    TRUE,  20),
     Row(26, Day16, Num(45), T_Regular, <<>>, B_D,    N_Bob,    TRUE,  10)}

MaxReportRows == 2
MaxGenerations == 2
ReportTables == {t \in SUBSET ReportRowPool : Cardinality(t) \in 1..MaxReportRows}

(***************************************************************************)
(* upload_invoice_creation_overrides  (pipeline/sync.py)                   *)
(*                                                                         *)
(* A batch is None or a sequence of rows, a row being the sequence of its  *)
(* cells.  The table invoice_creation_override is a function from invoice  *)
(* id to the stored date text.                                             *)
(***************************************************************************)
\* pd.to_datetime(text, format="%Y-%m-%d", errors="coerce") of one text:
\* year, month and day in digits between hyphens and a date of the calendar
strptime_ymd(t) ==
    IF /\ Len(t) = 10
       /\ AllDigits(t, 1, 4) /\ t[5] = "-"
       /\ AllDigits(t, 6, 7) /\ t[8] = "-"
       /\ AllDigits(t, 9, 10)
       /\ ValidDate(ParseDigits(SubSeq(t, 1, 4)), ParseDigits(SubSeq(t, 6, 7)),
                    ParseDigits(SubSeq(t, 9, 10)))
    THEN Date(ParseDigits(SubSeq(t, 1, 4)), ParseDigits(SubSeq(t, 6, 7)),
              ParseDigits(SubSeq(t, 9, 10)))
    ELSE None

\* ids = pd.to_numeric(work.iloc[:, 0], errors="coerce")
override_ids(work) == [i \in DOMAIN work |-> to_numeric(work[i][1])]

\* dt = pd.to_datetime(work.iloc[:, 1].astype(str).str.strip(), format="%Y-%m-%d")
override_dates(work) == [i \in DOMAIN work |-> strptime_ymd(strip(astype_str(work[i][2])))]

\* work.loc[mask, column].head(10).tolist()
head10(work, column, mask) ==
    [k \in 1..Min2(10, Len(SelectSeq([i \in DOMAIN work |-> i], LAMBDA i : mask[i]))) |->
        work[SelectSeq([i \in DOMAIN work |-> i], LAMBDA i : mask[i])[k]][column]]

\* a plausible slip: every record kept
drop_duplicates_last_All(payload) == payload

\* payload.drop_duplicates(subset=["invoice_id"], keep="last")
drop_duplicates_last(payload) ==
    LET keep == SelectSeq([i \in DOMAIN payload |-> i],
                          LAMBDA i : \A j \in (i + 1)..Len(payload) :
                                        payload[j].invoice_id # payload[i].invoice_id)
    IN  [k \in DOMAIN keep |-> payload[keep[k]]]

\* the records of a batch whose ids and dates are valid
override_records(ids, dt) ==
    drop_duplicates_last([i \in DOMAIN ids |->
                             [invoice_id        |-> ids[i][2],
                              new_creation_date |-> strftime_ymd(dt[i])]])

\* table.upsert(records, on_conflict="invoice_id").execute()
upsert(table, records) ==
    [id \in DOMAIN table \cup {records[i].invoice_id : i \in DOMAIN records} |->
        IF \E i \in DOMAIN records : records[i].invoice_id = id
        THEN records[CHOOSE i \in DOMAIN records : records[i].invoice_id = id].new_creation_date
        ELSE table[id]]

NoExamples == <<>>
Raise(overrides, kind, examples) ==
    [overrides |-> overrides, outcome |-> kind, examples |-> examples, value |-> 0,
     upserted |-> <<>>, contacted |-> FALSE]

\* the positions of the rows of a batch whose date is valid
valid_rows(dt) == SelectSeq([i \in DOMAIN dt |-> i], LAMBDA i : dt[i] # None)

\* a plausible slip: the rows with a valid date upserted, then the error of
\* the other dates raised
override_dates_checked_Partial(overrides, work, ids, dt) ==
    IF \E i \in DOMAIN dt : dt[i] = None
    THEN [Raise(upsert(overrides,
                       override_records([k \in DOMAIN valid_rows(dt) |-> ids[valid_rows(dt)[k]]],
                                        [k \in DOMAIN valid_rows(dt) |-> dt[valid_rows(dt)[k]]])),
                "ValueError", head10(work, 2, [i \in DOMAIN dt |-> dt[i] = None]))
            EXCEPT !.contacted = TRUE]
    ELSE [overrides |-> upsert(overrides, override_records(ids, dt)),
          outcome   |-> "returned",
          examples  |-> NoExamples,
          value     |-> Len(override_records(ids, dt)),
          upserted  |-> override_records(ids, dt),
          contacted |-> TRUE]

\* the validation of the dates, the upsert and the return
override_dates_checked(overrides, work, ids, dt) ==
    IF \E i \in DOMAIN dt : dt[i] = None
    THEN Raise(overrides, "ValueError", head10(work, 2, [i \in DOMAIN dt |-> dt[i] = None]))
    ELSE [overrides |-> upsert(overrides, override_records(ids, dt)),
          outcome   |-> "returned",
          examples  |-> NoExamples,
          value     |-> Len(override_records(ids, dt)),
          upserted  |-> override_records(ids, dt),
          contacted |-> TRUE]

\* the validation of the ids
override_ids_checked(overrides, work, ids) ==
    IF \E i \in DOMAIN ids : ids[i] = None
    THEN Raise(overrides, "ValueError", head10(work, 1, [i \in DOMAIN ids |-> ids[i] = None]))
    ELSE IF \E i \in DOMAIN ids : ~IsNum(ids[i])
    THEN Raise(overrides, "ValueError", head10(work, 1, [i \in DOMAIN ids |-> ~IsNum(ids[i])]))
    ELSE override_dates_checked(overrides, work, ids, override_dates(work))

\* upload_invoice_creation_overrides(df) on the override table, with the
\* environment configured or not
upload_invoice_creation_overrides(overrides, batch, env) ==
    IF batch.none \/ batch.rows = <<>>
    THEN [Raise(overrides, "returned", NoExamples) EXCEPT !.value = 0]
    ELSE IF Len(batch.rows[1]) < 2
    THEN Raise(overrides, "ValueError", NoExamples)
    ELSE IF ~env
    THEN Raise(overrides, "RuntimeError", NoExamples)
    ELSE override_ids_checked(overrides, batch.rows, override_ids(batch.rows))

\* the cells of uploaded batches
T_Day16Pad == <<" ", "2", "0", "2", "4", "-", "0", "1", "-", "1", "6", " ">>
T_SlashDate == <<"1", "5", "/", "0", "1", "/", "2", "0", "2", "4">>
IdCells == {None, Num(7), <<"8">>, <<"x">>, <<"7", ".", "5">>, <<"7", ".", "0">>, PosInf}
DateCells == {None, T_Day15, T_Day16Pad, Date(2024, 1, 17), T_BadMonth, T_SlashDate}
MaxBatch == 2
OneColumn == <<<<Num(7)>>>>
RECURSIVE SeqsUpTo(_, _)
SeqsUpTo(S, n) ==
    IF n = 0 THEN {<<>>}
    ELSE SeqsUpTo(S, n - 1) \cup {Append(q, x) : q \in {p \in SeqsUpTo(S, n - 1) : Len(p) = n - 1}, x \in S}
\* df is None, or a frame with its rows
Batches ==
    {[none |-> TRUE, rows |-> <<>>], [none |-> FALSE, rows |-> OneColumn]}
        \cup {[none |-> FALSE, rows |-> q] :
                 q \in SeqsUpTo({<<i, d>> : i \in IdCells, d \in DateCells}, MaxBatch)}

\* the override table before the call
OverrideTables == {<<>>, (7 :> T_Day15), (7 :> T_Day15) @@ (9 :> T_Day15)}

(***************************************************************************)
(* run_pipeline  (pipeline/sync.py)                                        *)
(*                                                                         *)
(* The backing table is the set of its rows.  A CSV is what get_csv_bytes  *)
(* delivered: whether read_csv can parse it, whether it has the column     *)
(* "Creation Date", and its rows.  A fault is the request of the call that *)
(* fails on the side of the network or the store ("none": no request       *)
(* fails).                                                                 *)
(***************************************************************************)
\* pd.to_datetime(text, format="%m/%d/%Y %H:%M", errors="coerce")
\*     .dt.strftime("%Y-%m-%dT%H:%M:%S") of one cell
creation_date_iso(c) ==
    IF /\ IsText(c) /\ Len(c) = 16
       /\ AllDigits(c, 1, 2) /\ c[3] = "/" /\ AllDigits(c, 4, 5) /\ c[6] = "/"
       /\ AllDigits(c, 7, 10) /\ c[11] = " "
       /\ AllDigits(c, 12, 13) /\ c[14] = ":" /\ AllDigits(c, 15, 16)
       /\ ValidDate(ParseDigits(SubSeq(c, 7, 10)), ParseDigits(SubSeq(c, 1, 2)),
                    ParseDigits(SubSeq(c, 4, 5)))
       /\ ParseDigits(SubSeq(c, 12, 13)) <= 23 /\ ParseDigits(SubSeq(c, 15, 16)) <= 59
    THEN SubSeq(c, 7, 10) \o <<"-">> \o SubSeq(c, 1, 2) \o <<"-">> \o SubSeq(c, 4, 5)
            \o <<"T">> \o SubSeq(c, 12, 16) \o <<":", "0", "0">>
    ELSE None

\* df.rename(columns=COLUMN_MAP), the creation date made JSON-safe and
\* df.where(pd.notnull(df), None).to_dict(orient="records")
pipeline_records(rows) ==
    {[invoice_id              |-> r["Invoice ID"],
      creation_date           |-> creation_date_iso(r["Creation Date"]),
      total_amount_with_taxes |-> r["Total Amount With Taxes"]] : r \in rows}

\* a plausible slip: the RPC leaves the rows in place
truncate_table_Keep(table) == table

\* supabase.rpc("truncate_table", {"tbl": table}).execute()
truncate_table(table) == {}

\* supabase.table(table).insert(records).execute()
insert(table, records) == table \cup records

Ended(table, outcome) == [table |-> table, outcome |-> outcome]

\* create_client, the truncation and the insertion
pipeline_store(table, records, fault) ==
    IF fault \in {"create_client", "truncate"} THEN Ended(table, fault)
    ELSE IF fault = "insert" THEN Ended(truncate_table(table), fault)
    ELSE Ended(insert(truncate_table(table), records), "returned")

\* a plausible slip: the table truncated before the CSV is read
pipeline_csv_TruncateFirst(table, csv, fault) ==
    IF ~csv.parsable THEN Ended(truncate_table(table), "read_csv")
    ELSE IF ~csv.has_creation_date THEN Ended(truncate_table(table), "KeyError")
    ELSE pipeline_store(table, pipeline_records(csv.rows), fault)

\* read_csv, the renaming of the columns and the records
pipeline_csv(table, csv, fault) ==
    IF ~csv.parsable THEN Ended(table, "read_csv")
    ELSE IF ~csv.has_creation_date THEN Ended(table, "KeyError")
    ELSE pipeline_store(table, pipeline_records(csv.rows), fault)

\* run_pipeline() on the backing table
run_pipeline(table, env, csv, fault) ==
    IF ~env THEN Ended(table, "RuntimeError")
    ELSE IF fault = "download" THEN Ended(table, "download")
    ELSE pipeline_csv(table, csv, fault)

Faults == {"none", "download", "create_client", "truncate", "insert"}

\* the rows of the exports
T_Created == <<"0", "1", "/", "1", "5", "/", "2", "0", "2", "4", " ", "1", "0", ":", "3", "0">>
CsvRow(id, created, amount) ==
    [c \in {"Invoice ID", "Creation Date", "Total Amount With Taxes"} |->
        IF c = "Invoice ID" THEN id ELSE IF c = "Creation Date" THEN created ELSE amount]
CsvRowPool == {CsvRow(1, T_Created, Num(100)), CsvRow(2, T_Day15, Num(50)), CsvRow(3, None, None)}
MaxCsvRows == 2
Csvs ==
    {[parsable |-> FALSE, has_creation_date |-> FALSE, rows |-> {}]}
      \cup {[parsable |-> TRUE, has_creation_date |-> h, rows |-> q] :
               h \in BOOLEAN,
               q \in {t \in SUBSET CsvRowPool : Cardinality(t) \in 1..MaxCsvRows}}
MaxSyncs == 2

Idle == <<"idle">>

ExtractIdle == name = Idle /\ num = Idle /\ epc = "off"
NormIdle    == raw = Idle /\ norm1 = Idle /\ norm2 = Idle /\ npc = "off"
FilterIdle  == f = Idle /\ df_f = Idle /\ prev_df_f = Idle /\ fpc = "off"
PageIdle    == session_state = Idle /\ run = Idle /\ ppc = "off"
ChartIdle   == status_sel = Idle /\ chart = Idle /\ cpc = "off"
ReportIdle  == root_dir = Idle /\ report = Idle /\ rpc = "off"
StoreIdle   == store = Idle /\ call = Idle /\ spc = "off"

InitExtract ==
    /\ name \in NameInputs
    /\ num = None
    /\ epc = "call"
    /\ df = Idle
    /\ NormIdle /\ FilterIdle /\ PageIdle /\ ChartIdle /\ ReportIdle /\ StoreIdle

ExtractCompanyNumber ==
    /\ epc = "call"
    /\ num' = extract_company_number(name)
    /\ epc' = "done"
    /\ UNCHANGED <<name, df, normVars, filterVars, pageVars, chartVars, reportVars, storeVars>>

NextExtract == ExtractCompanyNumber

SpecExtract == InitExtract /\ [][NextExtract]_vars

InitNormalize ==
    /\ raw \in RawRows
    /\ norm1 = None
    /\ norm2 = None
    /\ npc = "raw"
    /\ df = Idle
    /\ ExtractIdle /\ FilterIdle /\ PageIdle /\ ChartIdle /\ ReportIdle /\ StoreIdle

\* df = normalize_invoices(df) on the fetched rows
NormalizeInvoices ==
    /\ npc = "raw"
    /\ norm1' = normalize_invoices(raw)
    /\ npc' = "once"
    /\ UNCHANGED <<raw, norm2, df, extractVars, filterVars, pageVars, chartVars, reportVars, storeVars>>

\* normalize_invoices applied to its own result
NormalizeAgain ==
    /\ npc = "once"
    /\ norm2' = normalize_invoices(norm1)
    /\ npc' = "twice"
    /\ UNCHANGED <<raw, norm1, df, extractVars, filterVars, pageVars, chartVars, reportVars, storeVars>>

NextNormalize == NormalizeInvoices \/ NormalizeAgain

SpecNormalize == InitNormalize /\ [][NextNormalize]_vars

InitFilter ==
    /\ df \in Tables
    /\ f \in FiltersValues
    /\ df_f = None
    /\ prev_df_f = None
    /\ fpc = "call"
    /\ ExtractIdle /\ NormIdle /\ PageIdle /\ ChartIdle /\ ReportIdle /\ StoreIdle

\* df_f = apply_filters(df, f)
ApplyFilters ==
    /\ fpc = "call"
    /\ df_f' = apply_filters(df, f)
    /\ fpc' = "applied"
    /\ UNCHANGED <<df, f, prev_df_f, extractVars, normVars, pageVars, chartVars, reportVars, storeVars>>

\* apply_filters again after one constraint of f was relaxed
Reapply(relaxed) ==
    /\ fpc = "applied"
    /\ relaxed # f
    /\ f' = relaxed
    /\ prev_df_f' = df_f
    /\ df_f' = apply_filters(df, relaxed)
    /\ fpc' = "relaxed"
    /\ UNCHANGED <<df, extractVars, normVars, pageVars, chartVars, reportVars, storeVars>>

WidenDates ==
    \E a, b \in FilterDates :
        /\ DateLE(a, f.issue_from) /\ DateLE(f.issue_to, b)
        /\ Reapply([f EXCEPT !.issue_from = a, !.issue_to = b])

WidenAging ==
    \E a, b \in AgingValues :
        /\ a <= f.aging_min /\ f.aging_max <= b
        /\ Reapply([f EXCEPT !.aging_min = a, !.aging_max = b])

AnyInvoiceType == Reapply([f EXCEPT !.invoice_type = T_All])

BothBuyerTypes == Reapply([f EXCEPT !.internal_external = BuyerTypes])

EmptyBuyers == Reapply([f EXCEPT !.buyer_selected = {}])

EmptyVendors == Reapply([f EXCEPT !.vendor_selected = {}])

NextFilter ==
    \/ ApplyFilters
    \/ WidenDates
    \/ WidenAging
    \/ AnyInvoiceType
    \/ BothBuyerTypes
    \/ EmptyBuyers
    \/ EmptyVendors

SpecFilter == InitFilter /\ [][NextFilter]_vars

InitPage ==
    /\ df \in PageTables
    /\ session_state = NoSession
    /\ run = NoRun
    /\ ppc = "start"
    /\ ExtractIdle /\ NormIdle /\ FilterIdle /\ ChartIdle /\ ReportIdle /\ StoreIdle

\* the script runs from top to bottom on the session s
RunScript(s, button) ==
    \E out \in {page_script(df, s, button)} :
        /\ session_state' = out.session
        /\ run' = out.run
        /\ ppc' = IF out.run.ended \in RerunEndings THEN "rerun" ELSE "idle"
        /\ UNCHANGED <<df, extractVars, normVars, filterVars, chartVars, reportVars, storeVars>>

\* the user opens the page
FirstRun == ppc = "start" /\ RunScript(session_state, "none")

\* st.rerun(): the script starts again, no button is pressed
Rerun == ppc = "rerun" /\ RunScript(session_state, "none")

DatesOnScreen == ppc = "idle" /\ run.ended \in SidebarEndings \cup {"exception"}
SidebarOnScreen == ppc = "idle" /\ run.ended \in SidebarEndings

SetIssueFrom ==
    /\ DatesOnScreen
    /\ \E d \in FilterDates :
          /\ d # session_state.issue_from
          /\ RunScript([session_state EXCEPT !.issue_from = d], "none")

SetIssueTo ==
    /\ DatesOnScreen
    /\ \E d \in FilterDates :
          /\ d # session_state.issue_to
          /\ RunScript([session_state EXCEPT !.issue_to = d], "none")

SetAgingRange ==
    /\ SidebarOnScreen
    /\ \E lo, hi \in AgingValues :
          /\ safe_aging_bounds(df)[1] <= lo /\ lo <= hi /\ hi <= safe_aging_bounds(df)[2]
          /\ <<lo, hi>> # session_state.aging_range
          /\ RunScript([session_state EXCEPT !.aging_range = <<lo, hi>>], "none")

SetInvoiceType ==
    /\ SidebarOnScreen
    /\ \E t \in InvoiceTypes :
          /\ t # session_state.invoice_type
          /\ RunScript([session_state EXCEPT !.invoice_type = t], "none")

SetInternalExternal ==
    /\ SidebarOnScreen
    /\ \E sel \in SUBSET BuyerTypes :
          /\ sel # session_state.internal_external
          /\ RunScript([session_state EXCEPT !.internal_external = sel], "none")

SetBuyerSelected ==
    /\ SidebarOnScreen
    /\ \E sel \in SUBSET run.options.buyers :
          /\ sel # session_state.buyer_selected
          /\ RunScript([session_state EXCEPT !.buyer_selected = sel], "none")

SetVendorSelected ==
    /\ SidebarOnScreen
    /\ \E sel \in SUBSET run.options.vendors :
          /\ sel # session_state.vendor_selected
          /\ RunScript([session_state EXCEPT !.vendor_selected = sel], "none")

\* the artifacts stored in the session
StoredArtifacts(s) ==
    {k \in {"html_report_bytes", "reports_zip_bytes", "invoices_zip_bytes"} : s[k] # None}

ClickRefresh == SidebarOnScreen /\ RunScript(session_state, "refresh")

\* a generate button; explored while fewer than MaxStored artifacts are stored
ClickGenerate ==
    /\ SidebarOnScreen
    /\ Cardinality(StoredArtifacts(session_state)) < MaxStored
    /\ \E b \in Buttons \ {"refresh"} : RunScript(session_state, b)

Next ==
    \/ FirstRun
    \/ Rerun
    \/ SetIssueFrom
    \/ SetIssueTo
    \/ SetAgingRange
    \/ SetInvoiceType
    \/ SetInternalExternal
    \/ SetBuyerSelected
    \/ SetVendorSelected
    \/ ClickRefresh
    \/ ClickGenerate

Init == InitPage

Spec == Init /\ [][Next]_vars

(***************************************************************************)
(* The charts of the page on one filtered table                            *)
(***************************************************************************)
NoChart == [kind |-> "none", out |-> <<>>]

InitCharts ==
    /\ df \in ChartTables
    /\ status_sel = StatusOptions
    /\ chart = NoChart
    /\ cpc = "charts"
    /\ ExtractIdle /\ NormIdle /\ FilterIdle /\ PageIdle /\ ReportIdle /\ StoreIdle

\* the treemaps call _metrics_rollup(df_f)
MetricsRollup ==
    /\ cpc = "charts"
    /\ chart' = [kind |-> "metrics", out |-> metrics_rollup(df)]
    /\ UNCHANGED <<df, status_sel, cpc, extractVars, normVars, filterVars, pageVars, reportVars, storeVars>>

\* the By day tab: render_past_due_bins(df_f[df_f["past_due"]])
RenderPastDueBins ==
    /\ cpc = "charts"
    /\ chart' = [kind |-> "bins", out |-> render_past_due_bins({r \in df : r.past_due})]
    /\ UNCHANGED <<df, status_sel, cpc, extractVars, normVars, filterVars, pageVars, reportVars, storeVars>>

\* the user changes the Status multiselect of the Current tab: the script
\* runs again and the tab is rendered with the new selection
SetStatusSel ==
    /\ cpc = "charts"
    /\ \E sel \in SUBSET StatusOptions :
          /\ sel # status_sel
          /\ status_sel' = sel
          /\ chart' = [kind |-> "by_days",
                       out  |-> render_invoices_by_days_since_issue_bars(df, sel)]
    /\ UNCHANGED <<df, cpc, extractVars, normVars, filterVars, pageVars, reportVars, storeVars>>

\* the Current tab: render_invoices_by_days_since_issue_bars(df_f)
RenderByDays ==
    /\ cpc = "charts"
    /\ chart' = [kind |-> "by_days",
                 out  |-> render_invoices_by_days_since_issue_bars(df, status_sel)]
    /\ UNCHANGED <<df, status_sel, cpc, extractVars, normVars, filterVars, pageVars, reportVars, storeVars>>

NextCharts == MetricsRollup \/ RenderPastDueBins \/ SetStatusSel \/ RenderByDays

SpecCharts == InitCharts /\ [][NextCharts]_vars

(***************************************************************************)
(* sanitize_path_part on one name                                          *)
(***************************************************************************)
InitSanitize ==
    /\ report \in [s : SanitizeInputs, token : {None}]
    /\ rpc = "call"
    /\ root_dir = Idle
    /\ df = Idle
    /\ ExtractIdle /\ NormIdle /\ FilterIdle /\ PageIdle /\ ChartIdle /\ StoreIdle

\* sanitize_path_part(s, maxlen=80), as generate_html_partitioned calls it
SanitizePathPart ==
    /\ rpc = "call"
    /\ report' = [report EXCEPT !.token = sanitize_path_part(report.s, 80)]
    /\ rpc' = "done"
    /\ UNCHANGED <<df, root_dir, extractVars, normVars, filterVars, pageVars, chartVars, storeVars>>

NextSanitize == SanitizePathPart

SpecSanitize == InitSanitize /\ [][NextSanitize]_vars

(***************************************************************************)
(* Report generations on one generator and one output folder               *)
(***************************************************************************)
NoTree == [vendors |-> <<>>, grand_total |-> 0]
NoReport == [kind |-> "none", gen |-> 0, df_report |-> {}, tree |-> NoTree,
             contexts |-> <<>>, zip |-> NoFiles]

InitReport ==
    /\ df \in ReportTables
    /\ root_dir = NoFiles
    /\ report = NoReport
    /\ rpc = "ready"
    /\ ExtractIdle /\ NormIdle /\ FilterIdle /\ PageIdle /\ ChartIdle /\ StoreIdle

\* the filters change and another non-empty table reaches the page
FilterTable ==
    /\ rpc = "ready"
    /\ \E t \in ReportTables : t # df /\ df' = t
    /\ UNCHANGED <<reportVars, extractVars, normVars, filterVars, pageVars, chartVars, storeVars>>

\* generate_full_html_report_to_session(df_f, report_generator)
GenerateFull ==
    /\ rpc = "ready"
    /\ report.gen < MaxGenerations
    /\ report' = [report EXCEPT !.kind = "full", !.gen = @ + 1,
                                 !.df_report = df,
                                 !.tree = generate_html(df, hide_cols)]
    /\ UNCHANGED <<df, root_dir, rpc, extractVars, normVars, filterVars, pageVars, chartVars, storeVars>>

\* generate_partitioned_reports_zip_to_session(df_f, report_generator)
GeneratePartitioned ==
    /\ rpc = "ready"
    /\ report.gen < MaxGenerations
    /\ root_dir' = generate_html_partitioned(root_dir, df, hide_cols)
    /\ report' = [report EXCEPT
                      !.kind = "partitioned", !.gen = @ + 1,
                      !.df_report = df,
                      !.contexts = leaf_contexts(df, groupby_pairs(df,
                                       sorted_keys({r.vendor_company_name : r \in df})),
                                       hide_cols),
                      !.zip = zip_folder_bytes(generate_html_partitioned(root_dir, df, hide_cols))]
    /\ UNCHANGED <<df, rpc, extractVars, normVars, filterVars, pageVars, chartVars, storeVars>>

NextReport == FilterTable \/ GenerateFull \/ GeneratePartitioned

SpecReport == InitReport /\ [][NextReport]_vars

(***************************************************************************)
(* One upload of creation-date overrides                                   *)
(***************************************************************************)
InitOverrides ==
    /\ store \in {[overrides |-> t] : t \in OverrideTables}
    /\ call \in {[df |-> b, env |-> e, before |-> <<>>, outcome |-> "pending",
                  examples |-> NoExamples, value |-> 0, upserted |-> <<>>,
                  contacted |-> FALSE] : b \in Batches, e \in BOOLEAN}
    /\ spc = "call"
    /\ df = Idle
    /\ ExtractIdle /\ NormIdle /\ FilterIdle /\ PageIdle /\ ChartIdle /\ ReportIdle

UploadOverrides ==
    /\ spc = "call"
    /\ \E out \in {upload_invoice_creation_overrides(store.overrides, call.df, call.env)} :
          /\ store' = [overrides |-> out.overrides]
          /\ call' = [call EXCEPT !.before = store.overrides,
                                  !.outcome = out.outcome, !.examples = out.examples,
                                  !.value = out.value, !.upserted = out.upserted,
                                  !.contacted = out.contacted]
    /\ spc' = "done"
    /\ UNCHANGED <<df, extractVars, normVars, filterVars, pageVars, chartVars, reportVars>>

NextOverrides == UploadOverrides

SpecOverrides == InitOverrides /\ [][NextOverrides]_vars

(***************************************************************************)
(* Synchronisations of the backing table, one after the other              *)
(***************************************************************************)
NoSync == [n |-> 0, env |-> TRUE, csv |-> [parsable |-> FALSE, has_creation_date |-> FALSE, rows |-> {}],
           fault |-> "none", before |-> {}, outcome |-> "none"]

InitSync ==
    /\ store = [table |-> {}]
    /\ call \in {[NoSync EXCEPT !.env = e] : e \in BOOLEAN}
    /\ spc = "ready"
    /\ df = Idle
    /\ ExtractIdle /\ NormIdle /\ FilterIdle /\ PageIdle /\ ChartIdle /\ ReportIdle

\* "Export & Upload": run_pipeline() inside the try of the page, which shows
\* the error of a failed call
RunPipeline ==
    /\ spc = "ready"
    /\ call.n < MaxSyncs
    /\ \E csv \in Csvs, fault \in Faults :
          \E out \in {run_pipeline(store.table, call.env, csv, fault)} :
             /\ store' = [table |-> out.table]
             /\ call' = [call EXCEPT !.n = @ + 1, !.csv = csv, !.fault = fault,
                                     !.before = store.table, !.outcome = out.outcome]
    /\ UNCHANGED <<spc, df, extractVars, normVars, filterVars, pageVars, chartVars, reportVars>>

NextSync == RunPipeline

SpecSync == InitSync /\ [][NextSync]_vars

(***************************************************************************)
(* The sanitize-and-rerun loop of the sidebar on a session that holds      *)
(* stored buyer and vendor selections, the other settings fixed            *)
(***************************************************************************)
\* the names a session may hold from earlier data
LoopNames == {N_Num, N_NumPad, N_Bob, N_Hyph}
MaxLoopRows == 3
LoopTables ==
    {t \in SUBSET {r \in RowPool : r.invoice_id \in {1, 2, 7, 8}} :
        /\ Cardinality(t) \in 2..MaxLoopRows
        /\ safe_aging_bounds(t)[1] < safe_aging_bounds(t)[2]}

\* the sessions of earlier runs on the table, with stored selections
StoredSessions(table) ==
    {[sidebar_session(NoSession, safe_issue_bounds(table)[1], safe_issue_bounds(table)[2],
                      safe_aging_bounds(table)[1], safe_aging_bounds(table)[2])
         EXCEPT !.buyer_selected = b, !.vendor_selected = v,
                !.invoice_type = t, !.internal_external = ie] :
        b \in SUBSET LoopNames, v \in SUBSET LoopNames,
        t \in {T_All, T_Regular}, ie \in {{}, {"External"}}}

InitLoop ==
    /\ df \in LoopTables
    /\ session_state \in StoredSessions(df)
    /\ run = [reruns |-> 0, ended |-> "none",
              buyer_start |-> session_state.buyer_selected,
              vendor_start |-> session_state.vendor_selected]
    /\ ppc = "rerun"
    /\ ExtractIdle /\ NormIdle /\ FilterIdle /\ ChartIdle /\ ReportIdle /\ StoreIdle

\* one run of the script up to the end of render_filters_sidebar
SidebarRun ==
    /\ ppc = "rerun"
    /\ \E sb \in {render_filters_sidebar(df, session_state,
                      safe_issue_bounds(df)[1], safe_issue_bounds(df)[2],
                      safe_aging_bounds(df)[1], safe_aging_bounds(df)[2])} :
          /\ session_state' = sb.session
          /\ run' = [run EXCEPT !.reruns = IF sb.ended = "rerun" THEN @ + 1 ELSE @,
                                !.ended = sb.ended]
          /\ ppc' = IF sb.ended = "rerun" THEN "rerun" ELSE "idle"
    /\ UNCHANGED <<df, extractVars, normVars, filterVars, chartVars, reportVars, storeVars>>

NextLoop == SidebarRun

\* SidebarRun as the script runner sees it: a run is pending, and carrying it
\* out leaves a pending run or none and counts at most one more rerun.  Each
\* SidebarRun step is such a step and changes ppc or run.
ScriptRuns ==
    /\ ppc = "rerun"
    /\ ppc' \in {"rerun", "idle"}
    /\ run' \in {[run EXCEPT !.reruns = @ + k, !.ended = e] :
                    k \in {0, 1}, e \in {"rerun", "returned", "exception"}}

\* st.rerun() starts the next run of the script: the script runner carries
\* out every run that is pending
SpecLoop == InitLoop /\ [][NextLoop]_vars /\ WF_<<ppc, run>>(ScriptRuns)

(***************************************************************************)
(* fetch_all_rows: the paged read of the invoices view                     *)
(***************************************************************************)
\* .order("invoice_id", desc=False): the rows of the view by ascending id
RECURSIVE order(_)
order(rows) ==
    IF rows = {} THEN <<>>
    ELSE LET first == CHOOSE r \in rows : \A x \in rows : r.invoice_id <= x.invoice_id
         IN  <<first>> \o order(rows \ {first})

\* a plausible slip: the end of the range taken as excluded
range_Exclusive(ordered, from, to) ==
    IF from + 1 > Min2(to, Len(ordered)) THEN <<>>
    ELSE SubSeq(ordered, from + 1, Min2(to, Len(ordered)))

\* .range(from, to): the rows from..to of the ordered rows, counted from 0,
\* both ends included
range(ordered, from, to) ==
    IF from + 1 > Min2(to + 1, Len(ordered)) THEN <<>>
    ELSE SubSeq(ordered, from + 1, Min2(to + 1, Len(ordered)))

\* res.data or [] of one request
page_rows(view, c) == range(order(view), c.offset, c.offset + c.page_size - 1)

\* one pass of the loop body on the page it received; ended is "break" after
\* an empty or short page, "exhausted" after the last pass of range(max_pages)
loop_body(c, rows) ==
    IF rows = <<>>
    THEN [c EXCEPT !.requests = @ + 1, !.pages = Append(@, 0), !.ended = "break"]
    ELSE IF Len(rows) < c.page_size
    THEN [c EXCEPT !.requests = @ + 1, !.pages = Append(@, Len(rows)),
                   !.all_rows = @ \o rows, !.ended = "break"]
    ELSE [c EXCEPT !.requests = @ + 1, !.pages = Append(@, Len(rows)),
                   !.all_rows = @ \o rows, !.offset = @ + c.page_size,
                   !.ended = IF c.requests + 1 = c.max_pages THEN "exhausted" ELSE "loop"]

\* the rows of the view: invoice_id is its unique identifier
MaxViewRows == 5
ViewRow(k) == [invoice_id |-> k, total_amount_with_taxes |-> 10 * k]
Views == {{ViewRow(k) : k \in ids} : ids \in SUBSET (1..MaxViewRows)}
MaxPageSize == 3
MaxPages == 3

\* a call of fetch_all_rows(page_size, max_pages) before its first request
InitFetch ==
    /\ store \in {[view |-> v] : v \in Views}
    /\ call \in {[page_size |-> ps, max_pages |-> mp, all_rows |-> <<>>, offset |-> 0,
                  requests |-> 0, pages |-> <<>>,
                  ended |-> IF mp = 0 THEN "exhausted" ELSE "loop"] :
                    ps \in 1..MaxPageSize, mp \in 0..MaxPages}
    /\ spc = IF call.max_pages = 0 THEN "returned" ELSE "loop"
    /\ df = Idle
    /\ ExtractIdle /\ NormIdle /\ FilterIdle /\ PageIdle /\ ChartIdle /\ ReportIdle

\* one request for a page and the pass of the loop on it; the pass that ends
\* the loop returns pd.DataFrame(all_rows)
FetchPage ==
    /\ spc = "loop"
    /\ call' = loop_body(call, page_rows(store.view, call))
    /\ spc' = IF call'.ended = "loop" THEN "loop" ELSE "returned"
    /\ UNCHANGED <<store, df, extractVars, normVars, filterVars, pageVars, chartVars, reportVars>>

NextFetch == FetchPage

SpecFetch == InitFetch /\ [][NextFetch]_vars

(***************************************************************************)
(* C8                                                                      *)
(***************************************************************************)
LeadRun(t) ==
    CHOOSE n \in 0..Len(t) :
        /\ \A i \in 1..n : IsDigit(t[i])
        /\ (n = Len(t) \/ ~IsDigit(t[n + 1]))

\* t starts with DDDD-DDDD or with a maximal run of 7 to 10 digits, and the
\* character after the token, if any, is no word character
StartsWithToken(t) ==
    \/ /\ LeadRun(t) \in 7..10
       /\ (Len(t) = LeadRun(t) \/ ~IsWord(t[LeadRun(t) + 1]))
    \/ /\ LeadRun(t) = 4
       /\ Len(t) >= 9
       /\ t[5] = "-"
       /\ \A i \in 6..9 : IsDigit(t[i])
       /\ (Len(t) = 9 \/ ~IsWord(t[10]))

TokenOf(t) == IF LeadRun(t) = 4 THEN SubSeq(t, 1, 9) ELSE SubSeq(t, 1, LeadRun(t))

lstrip(s) == SubSeq(s, LeadingSpaces(s) + 1, Len(s))

\* C8 as stated: a token is returned exactly when the name itself starts
\* with DDDD-DDDD or with 7 to 10 digits followed by a word boundary.
C8_AsStated ==
    epc = "done" =>
        IF isinstance_str(name) /\ StartsWithToken(name)
        THEN num = TokenOf(name)
        ELSE num = None

\* C8 (amended): a token is returned exactly when the name, after any
\* leading whitespace is skipped, starts with DDDD-DDDD or with 7 to 10
\* digits followed by a word boundary; the token is returned without the
\* whitespace; every other input gives no match.
C8_LeadingToken ==
    epc = "done" =>
        IF isinstance_str(name) /\ StartsWithToken(lstrip(name))
        THEN num = TokenOf(lstrip(name))
        ELSE num = None

\* witnesses: a hyphenated token, and an 11-digit run that gives no match
C8_Witness ==
    /\ epc = "done"
    /\ isinstance_str(name)
    /\ Len(num) = 9
    /\ num[5] = "-"
    /\ LeadingSpaces(name) > 0

(***************************************************************************)
(* C9                                                                      *)
(***************************************************************************)
\* C9: normalize_invoices is idempotent: normalising a normalised row gives
\* the same row in every column.
C9_Idempotent == npc = "twice" => norm2 = norm1

\* witness: a second pass over a row whose first pass changed the type of
\* the date, the number and the flag
C9_Witness ==
    /\ npc = "twice"
    /\ IsText(raw.issue_date) /\ IsDate(norm1.issue_date)
    /\ IsText(raw.days_since_issue) /\ IsNum(norm1.days_since_issue)
    /\ IsText(raw.past_due) /\ norm1.past_due = Bool(TRUE)
    /\ norm2.past_due = Bool(TRUE)

(***************************************************************************)
(* C10                                                                     *)
(***************************************************************************)
IsEmptyName(c) == c = None \/ c = <<>>

\* C10: after normalize_invoices a row whose raw buyer or vendor name is
\* empty (null or the empty string) carries "(null)" in that field, and no
\* normalised buyer or vendor name is empty.
C10_EmptyNamesGetPlaceholder ==
    npc # "raw" /\ npc # "off" =>
        /\ IsEmptyName(raw.buyer_company_name) => norm1.buyer_company_name = NullPlaceholder
        /\ IsEmptyName(raw.vendor_company_name) => norm1.vendor_company_name = NullPlaceholder
        /\ norm1.buyer_company_name # <<>>
        /\ norm1.vendor_company_name # <<>>

(***************************************************************************)
(* C1                                                                      *)
(***************************************************************************)
\* Internal iff the buyer's company number is among the company numbers of
\* the vendor names of the whole table
Classification(table, r) ==
    IF /\ extract_company_number(r.buyer_company_name) # None
       /\ \E v \in table : /\ notna(v.vendor_company_name)
                           /\ extract_company_number(v.vendor_company_name)
                                = extract_company_number(r.buyer_company_name)
    THEN "Internal" ELSE "External"

DatePredicate(r, flt) ==
    /\ r.issue_date # None
    /\ DateLE(flt.issue_from, r.issue_date)
    /\ DateLE(r.issue_date, flt.issue_to)

AgingPredicate(r, flt) ==
    /\ r.days_since_issue # None
    /\ r.days_since_issue[2] >= flt.aging_min
    /\ r.days_since_issue[2] <= flt.aging_max

TypePredicate(r, flt) == flt.invoice_type = T_All \/ r.invoice_type = flt.invoice_type

UnpaidPredicate(r) == r.payment_status_norm # <<"p", "a", "i", "d">>

PartyPredicate(r, flt) ==
    /\ flt.buyer_selected # {} => r.buyer_company_name \in flt.buyer_selected
    /\ flt.vendor_selected # {} => r.vendor_company_name \in flt.vendor_selected

FiveExceptBuyerType(r, flt) ==
    /\ DatePredicate(r, flt)
    /\ AgingPredicate(r, flt)
    /\ TypePredicate(r, flt)
    /\ UnpaidPredicate(r)
    /\ PartyPredicate(r, flt)

\* C1 as stated: the result is exactly the set of input rows that satisfy
\* the six predicates, the fifth being "the Internal/External classification
\* of the row is in the selection".
C1_AsStated ==
    fpc = "applied" =>
        df_f = {r \in df : /\ FiveExceptBuyerType(r, f)
                           /\ Classification(df, r) \in f.internal_external}

\* C1 (amended): the result is a subset of the input and is exactly the set
\* of input rows that satisfy all six predicates, where the Internal/External
\* predicate is: the classification of the row is in the selection, or the
\* selection is empty (an empty selection restricts nothing).
C1_SixPredicates ==
    fpc = "applied" =>
        /\ df_f \subseteq df
        /\ df_f = {r \in df : /\ FiveExceptBuyerType(r, f)
                              /\ \/ f.internal_external = {}
                                 \/ Classification(df, r) \in f.internal_external}

\* witness: a result that keeps one row and drops another, under a config
\* that restricts the buyer type and the buyers
C1_Witness ==
    /\ fpc = "applied"
    /\ df_f # {} /\ df_f # df
    /\ f.internal_external = {"Internal"}
    /\ f.buyer_selected # {}

(***************************************************************************)
(* C2                                                                      *)
(***************************************************************************)
\* C2: relaxing one constraint of the config gives a superset of the result
\* under the original config.
C2_Monotone == fpc = "relaxed" => prev_df_f \subseteq df_f

\* witness: a relaxation that strictly grew the result from a non-empty one
C2_Witness ==
    /\ fpc = "relaxed"
    /\ prev_df_f # {}
    /\ prev_df_f # df_f
    /\ f.buyer_selected = {} /\ f.invoice_type # T_All

(***************************************************************************)
(* C7                                                                      *)
(***************************************************************************)
\* C7: with an empty selection or with both values the Internal/External
\* step removes no row; with only Internal it keeps exactly the Internal
\* rows and with only External exactly the External rows.
C7_BuyerTypeStep ==
    fpc = "applied" =>
        LET others == {r \in df : FiveExceptBuyerType(r, f)}
        IN  /\ f.internal_external \in {{}, BuyerTypes} => df_f = others
            /\ f.internal_external = {"Internal"} =>
                   df_f = {r \in others : Classification(df, r) = "Internal"}
            /\ f.internal_external = {"External"} =>
                   df_f = {r \in others : Classification(df, r) = "External"}

\* witness: an empty selection that kept an Internal and an External row
C7_Witness ==
    /\ fpc = "applied"
    /\ f.internal_external = {}
    /\ \E r1, r2 \in df_f : /\ Classification(df, r1) = "Internal"
                            /\ Classification(df, r2) = "External"

(***************************************************************************)
(* C3                                                                      *)
(***************************************************************************)
\* C3: the Internal flag that the sidebar and apply_filters compute for a
\* row is: the buyer's company number is among the company numbers of the
\* vendor names of the whole table.  It depends on the table and the buyer
\* name only, so it is the same under every config of the session.
C3_ClassificationFromFullTable ==
    /\ run.base_built =>
          \A r \in DOMAIN run.options.is_internal :
              run.options.is_internal[r] = (Classification(df, r) = "Internal")
    /\ run.f.returned =>
          \A r \in DOMAIN run.is_internal :
              run.is_internal[r] = (Classification(df, r) = "Internal")

\* witness: a buyer found Internal by both computations although every row
\* whose vendor carries its number is filtered out
C3_Witness ==
    /\ run.f.returned
    /\ \E r \in run.df_f :
          /\ run.is_internal[r]
          /\ run.options.is_internal[r]
          /\ \A v \in df :
                extract_company_number(v.vendor_company_name)
                    = extract_company_number(r.buyer_company_name) => v \notin run.df_f

(***************************************************************************)
(* C4                                                                      *)
(***************************************************************************)
\* the Filters value of the run, read from the widgets' session entries
SessionFilters ==
    [issue_from        |-> session_state.issue_from,
     issue_to          |-> session_state.issue_to,
     aging_min         |-> session_state.aging_range[1],
     aging_max         |-> session_state.aging_range[2],
     invoice_type      |-> session_state.invoice_type,
     internal_external |-> IF session_state.internal_external = {} THEN BuyerTypes
                           ELSE session_state.internal_external,
     buyer_selected    |-> session_state.buyer_selected,
     vendor_selected   |-> session_state.vendor_selected]

\* the rows of the table that pass the six predicates of a config
Passing(table, flt) ==
    {r \in table : /\ FiveExceptBuyerType(r, flt)
                   /\ Classification(table, r) \in flt.internal_external}

C5_OptionBase ==
    run.base_built =>
        LET o == run.options
            flt == [issue_from        |-> o.issue_from,
                    issue_to          |-> o.issue_to,
                    aging_min         |-> o.aging_min_val,
                    aging_max         |-> o.aging_max_val,
                    invoice_type      |-> o.invoice_type,
                    internal_external |-> o.internal_external_effective,
                    buyer_selected    |-> {},
                    vendor_selected   |-> {}]
        IN  /\ o.df_base = apply_filters(df, flt)
            /\ o.buyers = {r.buyer_company_name :
                              r \in {x \in o.df_base :
                                        \/ o.vendor_current = {}
                                        \/ x.vendor_company_name \in o.vendor_current}}
            /\ o.vendors = {r.vendor_company_name :
                              r \in {x \in o.df_base :
                                        \/ o.buyer_current = {}
                                        \/ x.buyer_company_name \in o.buyer_current}}

\* witness: a vendor selection that narrows the offered buyers, on a base
\* from which the buyer type step removed a row
C5_Witness ==
    /\ run.base_built
    /\ run.options.vendor_current # {}
    /\ run.options.buyers # {}
    /\ run.options.buyers # {r.buyer_company_name : r \in run.options.df_base}

\* witness: a base that lost a row to the buyer type step
C5_WitnessBuyerType ==
    /\ run.base_built
    /\ run.options.df_base # {}
    /\ run.options.df_base # DOMAIN run.options.is_internal

(***************************************************************************)
(* C6                                                                      *)
(***************************************************************************)
\* C6: when the sidebar reaches the buyer and vendor widgets without a
\* rerun, the stored selections are subsets of the offered options; when a
\* stored name is outside the computed options, exactly such names are
\* removed from the stored selections and a rerun is requested instead.
C6_SelectionsWithinOptions ==
    /\ run.f.returned =>
          /\ session_state.buyer_selected \subseteq run.options.buyers
          /\ session_state.vendor_selected \subseteq run.options.vendors
    /\ run.base_built =>
          LET o == run.options
              outside == \/ ~(o.buyer_current \subseteq o.buyers)
                         \/ ~(o.vendor_current \subseteq o.vendors)
          IN  /\ outside <=> run.ended = "rerun_sanitize"
              /\ outside =>
                    /\ ~run.f.returned
                    /\ session_state.buyer_selected = o.buyer_current \cap o.buyers
                    /\ session_state.vendor_selected = o.vendor_current \cap o.vendors

\* witness: a rerun requested after a stored buyer fell out of the options
C6_Witness ==
    /\ run.ended = "rerun_sanitize"
    /\ run.options.buyer_current # {}
    /\ session_state.buyer_selected # run.options.buyer_current

(***************************************************************************)
(* C11                                                                     *)
(***************************************************************************)
\* C11: after normalize_invoices the amount of every row is a finite
\* number (a missing, unparseable or infinite raw amount becomes 0), and
\* days_since_issue is a finite number or missing (an unparseable or
\* infinite raw value becomes missing).
C11_FiniteAfterNormalize ==
    npc # "raw" /\ npc # "off" =>
        /\ IsNum(norm1.total_amount_with_taxes)
        /\ to_numeric(raw.total_amount_with_taxes) = None \/ IsInf(to_numeric(raw.total_amount_with_taxes))
              => norm1.total_amount_with_taxes = Num(0)
        /\ norm1.days_since_issue = None \/ IsNum(norm1.days_since_issue)

(***************************************************************************)
(* C12                                                                     *)
(***************************************************************************)
\* the rows of a table with a past_due value and an invoice type
RowsOfPair(table, due, type) ==
    {r \in table : r.past_due = due /\ r.invoice_type = type}

\* C12: _metrics_rollup returns exactly four rows, one for each pair of
\* {Current, Past Due} x {Regular, One Shot}, for every table, the empty one
\* included; the count and the amount of a pair are the number and the
\* amount sum of the rows with that past_due value and invoice type, 0 and
\* 0 when there is none.
C12_FourPairs ==
    chart.kind = "metrics" =>
        /\ DOMAIN chart.out = {<<"Current", T_Regular>>, <<"Current", T_OneShot>>,
                               <<"Past Due", T_Regular>>, <<"Past Due", T_OneShot>>}
        /\ Cardinality(DOMAIN chart.out) = 4
        /\ \A k \in DOMAIN chart.out :
              /\ chart.out[k].count
                    = Cardinality(RowsOfPair(df, k[1] = "Past Due", k[2]))
              /\ chart.out[k].amount
                    = sum_amount(RowsOfPair(df, k[1] = "Past Due", k[2]))
              /\ RowsOfPair(df, k[1] = "Past Due", k[2]) = {}
                    => chart.out[k].count = 0 /\ chart.out[k].amount = 0

\* witness: a rollup with a pair that has rows and a pair that has none, on
\* a table that also holds a row of neither type
C12_Witness ==
    /\ chart.kind = "metrics"
    /\ \E r \in df : r.invoice_type = <<>>
    /\ \E k \in DOMAIN chart.out : chart.out[k].count = 1 /\ chart.out[k].amount > 0
    /\ \E k \in DOMAIN chart.out : chart.out[k].count = 0

\* witness: the rollup of the empty table
C12_WitnessEmpty ==
    /\ chart.kind = "metrics"
    /\ df = {}
    /\ \A k \in DOMAIN chart.out : chart.out[k].count = 0

(***************************************************************************)
(* C13                                                                     *)
(***************************************************************************)
\* the past-due rows of the charted table with a defined days_since_issue
PastDueWithDays == {r \in df : r.past_due /\ notna(r.days_since_issue)}

\* the bins of the rollup that count a row: those whose range holds its days
BinsCounting(r) ==
    {b \in DOMAIN chart.out.bins :
        /\ chart.out.bins[b].bin_start <= r.days_since_issue[2]
        /\ r.days_since_issue[2] < chart.out.bins[b].bin_start + 30}

\* C13: in the aging-bucket rollup the bins start at 0, are 30 wide and
\* contiguous, and every past-due row with a defined days_since_issue, a
\* negative one included, is counted in exactly one bin; a single past-due
\* row of 45 days and amount 100 gives bin "30-59" count 1 amount 100.
C13_EveryRowInOneBin ==
    chart.kind = "bins" /\ PastDueWithDays # {} =>
        /\ chart.out.ended = "rendered"
        /\ chart.out.edges[1] = 0
        /\ \A i \in 1..(Len(chart.out.edges) - 1) :
              chart.out.edges[i + 1] = chart.out.edges[i] + 30
        /\ \A r \in PastDueWithDays : Cardinality(BinsCounting(r)) = 1
        /\ \A b \in DOMAIN chart.out.bins :
              chart.out.bins[b].count
                 = Cardinality({r \in PastDueWithDays : b \in BinsCounting(r)})
        /\ (\E r \in PastDueWithDays :
               /\ PastDueWithDays = {r}
               /\ r.days_since_issue = Num(45)
               /\ r.total_amount_with_taxes = 100)
              => /\ DOMAIN chart.out.bins = {<<"3", "0", "-", "5", "9">>}
                 /\ chart.out.bins[<<"3", "0", "-", "5", "9">>].count = 1
                 /\ chart.out.bins[<<"3", "0", "-", "5", "9">>].amount = 100

\* the same statement for tables whose past-due rows have no negative
\* days_since_issue
C13_NonNegativeRowsInOneBin ==
    (\A r \in PastDueWithDays : r.days_since_issue[2] >= 0) => C13_EveryRowInOneBin

(***************************************************************************)
(* C14                                                                     *)
(***************************************************************************)
\* the largest days_since_issue among the past-due rows
MaxDays ==
    CHOOSE d \in {r.days_since_issue[2] : r \in PastDueWithDays} :
        \A r \in PastDueWithDays : r.days_since_issue[2] <= d

\* C14: the number of bins built by the aging-bucket rollup is
\* floor(max_days/30) + 1, max_days being the largest days_since_issue of
\* the past-due rows, and the last bin is the one that holds max_days.
C14_BinCount ==
    chart.kind = "bins" /\ PastDueWithDays # {} =>
        /\ Len(chart.out.labels) = (MaxDays \div 30) + 1
        /\ Len(chart.out.labels) >= 1
        /\ chart.out.edges[Len(chart.out.labels)] <= MaxDays
        /\ MaxDays < chart.out.edges[Len(chart.out.labels) + 1]

\* the same statement for tables whose largest past-due days_since_issue
\* is not negative
C14_BinCountNonNegative ==
    (PastDueWithDays # {} => MaxDays >= 0) => C14_BinCount

(***************************************************************************)
(* C15                                                                     *)
(***************************************************************************)
\* C15: in the per-day rollup each distinct days_since_issue d is tagged
\* Current when d <= 0 and Past Due when d > 0, whatever the past_due flag
\* of the rows grouped under d; the past_due flag only decides, through the
\* Status multiselect, which rows enter the rollup.
C15_TagBySign ==
    chart.kind = "by_days" /\ chart.out.ended = "rendered" =>
        /\ chart.out.rows =
              {r \in df : /\ notna(r.days_since_issue)
                          /\ \/ r.past_due /\ "Past Due" \in status_sel
                             \/ ~r.past_due /\ "Current" \in status_sel}
        /\ DOMAIN chart.out.counts = {r.days_since_issue[2] : r \in chart.out.rows}
        /\ \A d \in DOMAIN chart.out.counts :
              /\ d <= 0 => chart.out.counts[d].aging_status = "Current (<=0)"
              /\ d > 0 => chart.out.counts[d].aging_status = "Past Due (>0)"
              /\ chart.out.counts[d].invoice_count
                    = Cardinality({r \in chart.out.rows : r.days_since_issue[2] = d})

\* witness: day 0 tagged Current although a row grouped under it is past
\* due, in a rollup from which the multiselect removed a row
C15_Witness ==
    /\ chart.kind = "by_days"
    /\ chart.out.ended = "rendered"
    /\ 0 \in DOMAIN chart.out.counts
    /\ chart.out.counts[0].aging_status = "Current (<=0)"
    /\ \E r \in chart.out.rows : r.days_since_issue = Num(0) /\ r.past_due
    /\ \E r \in df : notna(r.days_since_issue) /\ r \notin chart.out.rows

(***************************************************************************)
(* C18                                                                     *)
(***************************************************************************)
T_Cafe_Co == <<"C", "a", "f", "é", "_", "C", "o">>

\* a "_" of the token stands next to another "_"
HasDoubleSeparator(t) == \E i \in 1..(Len(t) - 1) : t[i] = "_" /\ t[i + 1] = "_"

\* C18: sanitize_path_part replaces non-word characters by "_", collapses
\* each run of replaced characters and whitespace into a single "_" and
\* trims the separators at both ends, so that "Café & Co." gives "Café_Co".
C18_CollapsedSeparators ==
    rpc = "done" /\ report.s # None =>
        /\ report.s = T_CafeCo => report.token = T_Cafe_Co
        /\ ~(\E i \in 1..(Len(report.s) - 1) : report.s[i] = "_" /\ report.s[i + 1] = "_")
              => ~HasDoubleSeparator(report.token)

(***************************************************************************)
(* C19                                                                     *)
(***************************************************************************)
\* C19: for every name, null, empty, whitespace-only and punctuation-only
\* names included, sanitize_path_part returns a non-empty token of at most
\* 80 characters that holds no path separator and is neither "." nor "..";
\* a name that sanitizes to nothing gives "(null)".
C19_SafeToken ==
    rpc = "done" =>
        /\ Len(report.token) >= 1
        /\ Len(report.token) <= 80
        /\ \A i \in 1..Len(report.token) : report.token[i] \notin {"/", "\\"}
        /\ report.token # <<".">>
        /\ report.token # <<".", ".">>
        /\ (report.s = None \/ \A i \in 1..Len(report.s) :
                                   report.s[i] \in {" ", "\t", ".", "_", "-", "&", "/"})
              => report.token = NullPlaceholder

\* witness: a name longer than 80 characters cut to a token of 80
C19_Witness ==
    /\ rpc = "done"
    /\ report.s # None
    /\ Len(report.s) > 80
    /\ Len(report.token) = 80

\* witness: a punctuation-only name given the placeholder
C19_WitnessNull ==
    /\ rpc = "done"
    /\ report.s = <<".", ".">>
    /\ report.token = NullPlaceholder

(***************************************************************************)
(* C16                                                                     *)
(***************************************************************************)
\* the sum of the subtotals of the buyers bs of a vendor node
RECURSIVE SumSubtotals(_, _)
SumSubtotals(buyers, bs) ==
    IF bs = {} THEN 0
    ELSE LET b == CHOOSE x \in bs : TRUE
         IN  buyers[b].subtotal + SumSubtotals(buyers, bs \ {b})

\* the sum of the vendor-wise sums of buyer subtotals over the vendors vs
RECURSIVE SumLeaves(_, _)
SumLeaves(vendors, vs) ==
    IF vs = {} THEN 0
    ELSE LET v == CHOOSE x \in vs : TRUE
         IN  SumSubtotals(vendors[v].buyers, DOMAIN vendors[v].buyers)
                + SumLeaves(vendors, vs \ {v})

\* the sum of buyer_total over the leaf contexts at the positions is
RECURSIVE SumBuyerTotals(_, _)
SumBuyerTotals(contexts, is) ==
    IF is = {} THEN 0
    ELSE LET i == CHOOSE x \in is : TRUE
         IN  contexts[i].buyer_total + SumBuyerTotals(contexts, is \ {i})

\* C16: for every table handed to report generation the buyer subtotals
\* under a vendor add up to that vendor's total, and all buyer subtotals
\* add up to the grand total, in generate_html and in
\* generate_html_partitioned.
C16_TotalsAddUp ==
    /\ report.kind = "full" =>
          /\ \A v \in DOMAIN report.tree.vendors :
                SumSubtotals(report.tree.vendors[v].buyers,
                             DOMAIN report.tree.vendors[v].buyers)
                   = report.tree.vendors[v].vendor_total
          /\ SumLeaves(report.tree.vendors, DOMAIN report.tree.vendors)
                = report.tree.grand_total
    /\ report.kind = "partitioned" =>
          /\ \A i \in DOMAIN report.contexts :
                SumBuyerTotals(report.contexts,
                               {j \in DOMAIN report.contexts :
                                   report.contexts[j].vendor = report.contexts[i].vendor})
                   = report.contexts[i].vendor_total
          /\ \A i \in DOMAIN report.contexts :
                SumBuyerTotals(report.contexts, DOMAIN report.contexts)
                   = report.contexts[i].grand_total

\* witness: a full report of a vendor with two buyers
C16_Witness ==
    /\ report.kind = "full"
    /\ \E v \in DOMAIN report.tree.vendors :
          /\ Cardinality(DOMAIN report.tree.vendors[v].buyers) = 2
          /\ report.tree.vendors[v].vendor_total > 0

\* witness: a partitioned report of a vendor with two buyers
C16_WitnessPartitioned ==
    /\ report.kind = "partitioned"
    /\ \E i, j \in DOMAIN report.contexts :
          /\ i # j
          /\ report.contexts[i].vendor = report.contexts[j].vendor
          /\ report.contexts[i].vendor_total
                = report.contexts[i].buyer_total + report.contexts[j].buyer_total

(***************************************************************************)
(* C17                                                                     *)
(***************************************************************************)
\* C17: in partitioned mode two distinct (Vendor, Buyer) pairs are never
\* written to the same leaf path: the leaf paths of the index entries of a
\* generation are pairwise distinct, and the document under each path is
\* the one of its own pair, so as many leaf documents are written as there
\* are pairs.  The code joins the two sanitized names and nothing else, so
\* "A&B" and "A*B" (both "A_B"), or the buyers "C" and "C." of one vendor,
\* share a path and the later pair overwrites the earlier one.
C17_NoLeafCollision ==
    root_dir.has_index =>
        /\ \A i, j \in DOMAIN root_dir.index :
              i # j => root_dir.index[i].href # root_dir.index[j].href
        /\ \A i \in DOMAIN root_dir.index :
              /\ root_dir.leaves[root_dir.index[i].href].vendor = root_dir.index[i].vendor
              /\ root_dir.leaves[root_dir.index[i].href].buyer = root_dir.index[i].buyer

(***************************************************************************)
(* C20                                                                     *)
(***************************************************************************)
\* C20: each partitioned generation is built fresh: the ZIP stored in the
\* session holds the index and, for leaf documents, only those of the
\* (Vendor, Buyer) pairs of the table of the latest generation (the pairs
\* its index lists), each of them present, and no leaf document of a pair
\* that occurred only in an earlier generation.  The output folder is
\* created with exist_ok and never emptied, and the ZIP takes every file
\* under it, so the leaves of earlier generations stay in the ZIP.
C20_ZipOnlyLatestGeneration ==
    report.zip.has_index =>
        /\ \A i \in DOMAIN report.zip.index :
              report.zip.index[i].href \in DOMAIN report.zip.leaves
        /\ \A p \in DOMAIN report.zip.leaves :
              \E i \in DOMAIN report.zip.index : report.zip.index[i].href = p

(***************************************************************************)
(* C21                                                                     *)
(***************************************************************************)
\* the columns of the row detail rows
ColumnsOf(rows) == UNION {DOMAIN r : r \in rows}

\* sets of hidden columns a caller may pass
HideSets ==
    {{}, hide_cols, hide_cols \cup {"total_amount_with_taxes"}, {"invoice_id", "past_due"}}

\* the totals of the context of a full report
TreeTotals(tree) ==
    [grand_total |-> tree.grand_total,
     vendors |-> [v \in DOMAIN tree.vendors |->
                    [vendor_total |-> tree.vendors[v].vendor_total,
                     buyers |-> [b \in DOMAIN tree.vendors[v].buyers |->
                                    tree.vendors[v].buyers[b].subtotal]]]]

\* the totals of the contexts of a partitioned report
LeafTotals(contexts) ==
    [i \in DOMAIN contexts |->
        <<contexts[i].buyer_total, contexts[i].vendor_total, contexts[i].grand_total>>]

\* C21: in both report modes the row detail of every buyer group has none
\* of the hidden columns and neither the vendor nor the buyer column, every
\* row of the group is in the detail, and the buyer subtotals, the vendor
\* totals and the grand total are sums of the amount column over all rows
\* of the group, the same for every set of hidden columns.
C21_HiddenColumnsOnlyInDetail ==
    /\ report.kind = "full" =>
          /\ \A v \in DOMAIN report.tree.vendors :
                \A b \in DOMAIN report.tree.vendors[v].buyers :
                   /\ ColumnsOf(report.tree.vendors[v].buyers[b].rows)
                         \cap (hide_cols \cup {"vendor_company_name", "buyer_company_name"}) = {}
                   /\ {r.invoice_id : r \in report.tree.vendors[v].buyers[b].rows}
                         = {r.invoice_id : r \in df_buyer_of(df_vendor_of(report.df_report, v), b)}
                   /\ report.tree.vendors[v].buyers[b].subtotal
                         = sum_amount(df_buyer_of(df_vendor_of(report.df_report, v), b))
          /\ \A h \in HideSets :
                TreeTotals(generate_html(report.df_report, h)) = TreeTotals(report.tree)
    /\ report.kind = "partitioned" =>
          /\ \A i \in DOMAIN report.contexts :
                /\ ColumnsOf(report.contexts[i].rows)
                      \cap (hide_cols \cup {"vendor_company_name", "buyer_company_name"}) = {}
                /\ report.contexts[i].buyer_total
                      = sum_amount({r \in report.df_report :
                                       /\ r.vendor_company_name = report.contexts[i].vendor
                                       /\ r.buyer_company_name = report.contexts[i].buyer})
          /\ \A h \in HideSets :
                LeafTotals(leaf_contexts(report.df_report,
                               groupby_pairs(report.df_report,
                                   sorted_keys({r.vendor_company_name : r \in report.df_report})),
                               h))
                   = LeafTotals(report.contexts)

\* witness: a full report whose table carries a hidden column and whose
\* row detail still shows the amount
C21_Witness ==
    /\ report.kind = "full"
    /\ \E r \in report.df_report : "payment_status_norm" \in DOMAIN r
    /\ \E v \in DOMAIN report.tree.vendors :
          \E b \in DOMAIN report.tree.vendors[v].buyers :
             /\ report.tree.vendors[v].buyers[b].rows # {}
             /\ "total_amount_with_taxes" \in ColumnsOf(report.tree.vendors[v].buyers[b].rows)
             /\ report.tree.vendors[v].buyers[b].subtotal > 0

\* witness: the same for a partitioned report
C21_WitnessPartitioned ==
    /\ report.kind = "partitioned"
    /\ \E i \in DOMAIN report.contexts :
          /\ "total_amount_with_taxes" \in ColumnsOf(report.contexts[i].rows)
          /\ report.contexts[i].buyer_total > 0

(***************************************************************************)
(* C22                                                                     *)
(***************************************************************************)
\* C22: the stored artifacts of the session (full report bytes, partitioned
\* reports ZIP bytes, invoices ZIP bytes) are cleared when Refresh is
\* pressed: after a run in which Refresh was pressed no artifact is stored.
\* No generate button is pressed in such a run, so whatever is stored after
\* it was generated before it.  The run only calls st.cache_data.clear(),
\* which leaves st.session_state alone.
C22_RefreshClearsArtifacts ==
    run.button = "refresh" => StoredArtifacts(session_state) = {}

(***************************************************************************)
(* C23                                                                     *)
(***************************************************************************)
\* the three artifact entries of a session
Artifacts(session) ==
    <<session.html_report_bytes, session.reports_zip_bytes, session.invoices_zip_bytes>>

\* the rollups and apply_filters complete on the table without rows
EmptyTableCompletes ==
    /\ run.f.returned => apply_filters({}, run.f) = {}
    /\ metrics_rollup({}) = [k \in metrics_full |-> [amount |-> 0, count |-> 0]]
    /\ render_past_due_bins({}).ended = "warning"
    /\ \A sel \in SUBSET StatusOptions :
          render_invoices_by_days_since_issue_bars({}, sel).ended = "warning"
    /\ generate_html({}, hide_cols) = NoTree
    /\ generate_html_partitioned(NoFiles, {}, hide_cols) = [NoFiles EXCEPT !.has_index = TRUE]

\* a run on an empty filtered table stops at the no-rows message and a run
\* that went further had rows
EmptyRunStops ==
    /\ run.ended = "stop_empty" =>
          run.df_f = {} /\ run.generated = {} /\ run.shown = {}
    /\ run.ended \in {"rendered", "exception_zip", "rerun_full", "rerun_partitioned",
                      "rerun_invoices_zip"} =>
          run.df_f # {}

C23_WitnessArtifact ==
    /\ run.ended = "stop_empty"
    /\ StoredArtifacts(session_state) # {}

(***************************************************************************)
(* C24                                                                     *)
(***************************************************************************)
\* the id cells that denote an integer and the date cells that denote a
\* date written YYYY-MM-DD
IntegerIdCells == {Num(7), <<"8">>, <<"7", ".", "0">>}
YmdDateCells == {T_Day15, T_Day16Pad, Date(2024, 1, 17)}

\* the call was made on a frame with rows of two columns
TwoColumnBatch ==
    /\ spc = "done"
    /\ ~call.df.none
    /\ call.df.rows # <<>>
    /\ Len(call.df.rows[1]) = 2

\* the cells of the batch that make it invalid
OffendingCells ==
    {call.df.rows[i][1] : i \in {j \in DOMAIN call.df.rows :
                                    call.df.rows[j][1] \notin IntegerIdCells}}
      \cup {call.df.rows[i][2] : i \in {j \in DOMAIN call.df.rows :
                                    call.df.rows[j][2] \notin YmdDateCells}}

\* C24: upload_invoice_creation_overrides rejects a batch as a whole: when
\* a row has a null, non-numeric or non-integer invoice id or a date that
\* is not a valid YYYY-MM-DD date, the call raises, the error names
\* offending values of the batch, no upsert is made and the override table
\* is as it was before the call.
C24_BatchRejectedAsAWhole ==
    (TwoColumnBatch /\ OffendingCells # {}) =>
        /\ call.outcome # "returned"
        /\ store.overrides = call.before
        /\ ~call.contacted
        /\ call.upserted = <<>>
        /\ call.env =>
              /\ call.outcome = "ValueError"
              /\ call.examples # <<>>
              /\ \A k \in DOMAIN call.examples : call.examples[k] \in OffendingCells

\* witness: a batch of a valid row and a row with a malformed date is
\* rejected while the override table holds rows
C24_Witness ==
    /\ TwoColumnBatch
    /\ call.env
    /\ Len(call.df.rows) = 2
    /\ call.df.rows[1][1] \in IntegerIdCells /\ call.df.rows[1][2] \in YmdDateCells
    /\ call.df.rows[2][1] \in IntegerIdCells /\ call.df.rows[2][2] = T_SlashDate
    /\ call.outcome = "ValueError"
    /\ call.examples = <<T_SlashDate>>
    /\ call.before # <<>>

\* witness: a batch with a non-integer id is rejected
C24_WitnessId ==
    /\ TwoColumnBatch
    /\ call.env
    /\ \E i \in DOMAIN call.df.rows : call.df.rows[i][1] = <<"7", ".", "5">>
    /\ \A i \in DOMAIN call.df.rows : call.df.rows[i][1] # None /\ call.df.rows[i][1] # <<"x">>
    /\ call.outcome = "ValueError"
    /\ call.examples # <<>>

(***************************************************************************)
(* C27                                                                     *)
(***************************************************************************)
\* the integer an id cell denotes and the date text a date cell denotes
IdValue(c) == IF c \in {Num(7), <<"7", ".", "0">>} THEN 7 ELSE 8
DateValue(c) ==
    IF c = T_Day15 THEN T_Day15
    ELSE IF c = T_Day16Pad THEN <<"2", "0", "2", "4", "-", "0", "1", "-", "1", "6">>
    ELSE <<"2", "0", "2", "4", "-", "0", "1", "-", "1", "7">>

\* every row of the batch has an integer id and a YYYY-MM-DD date
ValidBatch == TwoColumnBatch /\ call.env /\ OffendingCells = {}

BatchIds == {IdValue(call.df.rows[i][1]) : i \in DOMAIN call.df.rows}

\* the last row of the batch with the id
LastRowOf(id) ==
    CHOOSE i \in DOMAIN call.df.rows :
        /\ IdValue(call.df.rows[i][1]) = id
        /\ \A j \in DOMAIN call.df.rows : IdValue(call.df.rows[j][1]) = id => j <= i

\* C27: on a valid batch upload_invoice_creation_overrides upserts exactly
\* one record for each distinct invoice id, with the date of the last input
\* row that has the id, leaves the other rows of the override table as
\* they were, and returns the number of distinct ids; for a null or empty
\* input it returns 0 without contacting the store.
C27_LatestRowWins ==
    /\ ValidBatch =>
          /\ call.outcome = "returned"
          /\ call.value = Cardinality(BatchIds)
          /\ Len(call.upserted) = Cardinality(BatchIds)
          /\ {call.upserted[k].invoice_id : k \in DOMAIN call.upserted} = BatchIds
          /\ \A k \in DOMAIN call.upserted :
                call.upserted[k].new_creation_date
                   = DateValue(call.df.rows[LastRowOf(call.upserted[k].invoice_id)][2])
          /\ DOMAIN store.overrides = DOMAIN call.before \cup BatchIds
          /\ \A id \in BatchIds :
                store.overrides[id] = DateValue(call.df.rows[LastRowOf(id)][2])
          /\ \A id \in DOMAIN call.before \ BatchIds : store.overrides[id] = call.before[id]
    /\ (spc = "done" /\ (call.df.none \/ call.df.rows = <<>>)) =>
          /\ call.outcome = "returned"
          /\ call.value = 0
          /\ ~call.contacted
          /\ store.overrides = call.before

\* witness: two rows with the same id and different dates, the id already
\* in the override table with a third date
C27_Witness ==
    /\ ValidBatch
    /\ Len(call.df.rows) = 2
    /\ IdValue(call.df.rows[1][1]) = 7 /\ IdValue(call.df.rows[2][1]) = 7
    /\ call.df.rows[1][2] = Date(2024, 1, 17) /\ call.df.rows[2][2] = T_Day16Pad
    /\ 7 \in DOMAIN call.before
    /\ call.value = 1
    /\ store.overrides[7] = <<"2", "0", "2", "4", "-", "0", "1", "-", "1", "6">>

\* witness: a null input returns 0
C27_WitnessNull == spc = "done" /\ call.df.none /\ call.value = 0 /\ call.outcome = "returned"

(***************************************************************************)
(* C25                                                                     *)
(***************************************************************************)
\* the Filters value of a run is well-formed for the data bounds
WellFormed(flt) ==
    /\ DateLE(flt.issue_from, flt.issue_to)
    /\ safe_aging_bounds(df)[1] <= flt.aging_min
    /\ flt.aging_min <= flt.aging_max
    /\ flt.aging_max <= safe_aging_bounds(df)[2]

\* a Filters value that render_filters_sidebar returned is well-formed
C25_ReturnedFiltersWellFormed == run.f.returned => WellFormed(run.f)

\* C25: whatever dates and aging range are stored at the start of a run,
\* render_filters_sidebar comes to a well-formed Filters value: an inverted
\* date pair is swapped and an aging range outside the data bounds is
\* clamped.  The swap assigns st.session_state["issue_from"] after the
\* date_input with that key was instantiated, which Streamlit refuses with
\* an exception, so a run that starts with an inverted pair returns no
\* Filters value at all.
C25_WellFormedFilters ==
    /\ run.ended # "exception"
    /\ C25_ReturnedFiltersWellFormed

(***************************************************************************)
(* C26                                                                     *)
(***************************************************************************)
\* C26: after run_pipeline returned, the backing table holds exactly the
\* rows of the CSV of that run, one row for each row of the CSV: no row
\* that was in the table before the sync remains unless the CSV has it, and
\* repeated syncs do not accumulate rows.
C26_TableIsLatestCsv ==
    call.outcome = "returned" =>
        /\ {r.invoice_id : r \in store.table} = {r["Invoice ID"] : r \in call.csv.rows}
        /\ Cardinality(store.table) = Cardinality(call.csv.rows)
        /\ store.table = pipeline_records(call.csv.rows)

\* witness: a second successful sync with a CSV that lacks a row of the
\* first
C26_Witness ==
    /\ call.outcome = "returned"
    /\ call.n = 2
    /\ \E r \in call.before : r.invoice_id \notin {x["Invoice ID"] : x \in call.csv.rows}
    /\ store.table # {}

(***************************************************************************)
(* C30                                                                     *)
(***************************************************************************)
\* C30: run_pipeline is not atomic: when the insertion fails after the
\* truncation, the error reaches the caller and the backing table is left
\* empty, the rows of the previous sync are not restored; when the
\* download, the parsing or the column mapping fails, the truncation is
\* not reached and the table is as it was.
C30_NotAtomic ==
    /\ call.outcome = "insert" => store.table = {}
    /\ call.outcome \in {"download", "read_csv", "KeyError"} => store.table = call.before

\* witness: the insertion fails on a table that held rows
C30_Witness ==
    /\ call.outcome = "insert"
    /\ call.before # {}
    /\ store.table = {}

\* witness: the CSV lacks the creation date column and the table keeps its
\* rows
C30_WitnessMapping ==
    /\ call.outcome = "KeyError"
    /\ call.before # {}
    /\ store.table = call.before

(***************************************************************************)
(* C28                                                                     *)
(***************************************************************************)
\* a requested rerun has removed a stored name and added none
RerunShrinks ==
    ppc' = "rerun" =>
        /\ session_state'.buyer_selected \subseteq session_state.buyer_selected
        /\ session_state'.vendor_selected \subseteq session_state.vendor_selected
        /\ Cardinality(session_state'.buyer_selected) + Cardinality(session_state'.vendor_selected)
              < Cardinality(session_state.buyer_selected) + Cardinality(session_state.vendor_selected)

\* C28: for a fixed table and fixed date, aging, type and Internal/External
\* settings the sanitize-and-rerun loop of render_filters_sidebar ends,
\* whatever buyer and vendor selections are stored: each rerun it requests
\* has removed at least one stored name and added none, the number of
\* reruns is at most |buyer_selected| + |vendor_selected|, and a run comes
\* that requests no rerun.
C28_SanitizeLoopTerminates ==
    /\ [](run.reruns <= Cardinality(run.buyer_start) + Cardinality(run.vendor_start))
    /\ [][RerunShrinks]_vars
    /\ <>(ppc = "idle" /\ run.ended = "returned")

\* witness: a run returned after a rerun that removed a stored buyer and a
\* stored vendor
C28_Witness ==
    /\ ppc = "idle"
    /\ run.ended = "returned"
    /\ run.reruns >= 1
    /\ session_state.buyer_selected # run.buyer_start
    /\ session_state.vendor_selected # run.vendor_start
    /\ session_state.buyer_selected # {}

(***************************************************************************)
(* C29                                                                     *)
(***************************************************************************)
\* the returned rows are in strictly ascending invoice_id order
Ascending(rows) ==
    \A i \in 1..Len(rows) - 1 : rows[i].invoice_id < rows[i + 1].invoice_id

SeqRows(rows) == {rows[i] : i \in 1..Len(rows)}

Capacity == call.page_size * call.max_pages

\* C29: on a store that does not change during the call, fetch_all_rows
\* issues at most max_pages page requests and none after a page that was
\* empty or shorter than page_size; when the view holds at most
\* page_size x max_pages rows it returns every row exactly once in ascending
\* invoice_id order, and when it holds more it returns, without an error,
\* the page_size x max_pages rows of lowest invoice_id.
C29_PagedRead ==
    /\ call.requests <= call.max_pages
    /\ call.requests = Len(call.pages)
    /\ \A i \in 1..Len(call.pages) - 1 : call.pages[i] = call.page_size
    /\ (spc = "loop" => \A i \in 1..Len(call.pages) : call.pages[i] = call.page_size)
    /\ spc = "returned" =>
          /\ Ascending(call.all_rows)
          /\ Cardinality(store.view) <= Capacity =>
                /\ SeqRows(call.all_rows) = store.view
                /\ Len(call.all_rows) = Cardinality(store.view)
          /\ Cardinality(store.view) > Capacity =>
                /\ Len(call.all_rows) = Capacity
                /\ SeqRows(call.all_rows) \subseteq store.view
                /\ \A r \in store.view \ SeqRows(call.all_rows) :
                      \A x \in SeqRows(call.all_rows) : x.invoice_id < r.invoice_id
                /\ call.ended = "exhausted"

\* witness: all rows of a view read in three requests, the last page short
C29_Witness ==
    /\ spc = "returned"
    /\ call.requests = 3
    /\ call.pages = <<2, 2, 1>>
    /\ Cardinality(store.view) = 5
    /\ Len(call.all_rows) = 5

\* witness: a view of more rows than page_size x max_pages, read in part
C29_WitnessTruncated ==
    /\ spc = "returned"
    /\ call.page_size = 2
    /\ call.max_pages = 2
    /\ Cardinality(store.view) = 5
    /\ Len(call.all_rows) = 4

\* witness: the rows fill the last page, and an empty page ends the read
C29_WitnessEmptyPage ==
    /\ spc = "returned"
    /\ call.pages = <<2, 2, 0>>
    /\ Len(call.all_rows) = 4

====
